---- MODULE Spec2Model ----
(***************************************************************************)
(* Result interpretation and chart synthesis of PathFinder                 *)
(* (src/src/database/echarts.py): the column-name recoverer, the tabular   *)
(* result parser and the chart pipeline, as state machines over Python     *)
(* values.  Text is kept at character level: a Python str is a TLA+        *)
(* string, read one character at a time with SubSeq.                       *)
(***************************************************************************)
EXTENDS Integers, Sequences, FiniteSets, TLC

VARIABLES
    pc,            \* position of the running call
    sql_query,     \* the source query handed to the call
    projections,   \* the projection expressions sql_query was written from
    column_names,  \* what extract_column_names_from_sql returned
    data,          \* the raw result handed to parse_sql_results
    parsed,        \* what parse_sql_results returned
    detection,     \* what detect_graph_request returned
    chart_type,    \* the chart type of the request
    variant,       \* the chart variant of the request
    chart_data,    \* what prepare_chart_data returned
    echarts_option,\* what generate_echarts_option did: Ok(text) or the exception
    returned,      \* what generate_chart_for_query, or the function called on its
                   \* own, did: Ok(value) or the exception
    calls,         \* the functions that invoked the completion capability, in order
    llm,           \* what the completion capability does in a call made on its own:
                   \* Ok(content) or the exception; a chart request draws one at each call
    answer         \* the value the content of llm was written from, if any

\* the variables of a chart request
request == <<detection, chart_type, variant, chart_data, echarts_option, returned, calls>>

vars == <<pc, sql_query, projections, column_names, data, parsed, request, llm, answer>>

(***************************************************************************)
(* Python values.  Every value is a record tagged by its type in t, with   *)
(* one payload field whose name depends on the type.                       *)
(***************************************************************************)
PyNone == [t |-> "none"]
PyBool(b) == [t |-> "bool", b |-> b]
PyInt(n) == [t |-> "int", n |-> n]
\* a float m / 10^e, e the number of decimals left after dropping trailing zeros
PyFloat(m, e) == [t |-> "float", m |-> m, e |-> e]
PyStr(s) == [t |-> "str", s |-> s]
PyList(l) == [t |-> "list", l |-> l]
PyTuple(l) == [t |-> "tuple", l |-> l]
\* a dict is its items in insertion order, keys (strings) pairwise distinct
PyDict(d) == [t |-> "dict", d |-> d]
\* the outcome of a block of code: the value it produced, or the exception it raised
Ok(v) == [t |-> "ok", v |-> v]
Raise(exc) == [t |-> "raise", exc |-> exc]
IsRaise(r) == r.t = "raise"

Unset == [t |-> "unset"]

Min(S) == CHOOSE x \in S : \A y \in S : x <= y
Max(S) == CHOOSE x \in S : \A y \in S : x >= y

(***************************************************************************)
(* str methods                                                             *)
(***************************************************************************)
\* s[i], and "" beyond either end of s
Ch(s, i) == IF 1 <= i /\ i <= Len(s) THEN SubSeq(s, i, i) ELSE ""

Whitespace == {" ", "\n", "\t"}
LowerLetters == {"a","b","c","d","e","f","g","h","i","j","k","l","m",
                 "n","o","p","q","r","s","t","u","v","w","x","y","z"}
UpperLetters == {"A","B","C","D","E","F","G","H","I","J","K","L","M",
                 "N","O","P","Q","R","S","T","U","V","W","X","Y","Z"}
Digits == {"0","1","2","3","4","5","6","7","8","9"}
LowerString == "abcdefghijklmnopqrstuvwxyz"
UpperString == "ABCDEFGHIJKLMNOPQRSTUVWXYZ"

\* str.upper / str.lower on one character
UpperCh(c) ==
    IF c \in LowerLetters
    THEN Ch(UpperString, CHOOSE i \in 1..Len(LowerString) : Ch(LowerString, i) = c)
    ELSE c
LowerCh(c) ==
    IF c \in UpperLetters
    THEN Ch(LowerString, CHOOSE i \in 1..Len(UpperString) : Ch(UpperString, i) = c)
    ELSE c

\* regex \w
IsWordCh(c) == c \in LowerLetters \cup UpperLetters \cup Digits \cup {"_"}

\* the positions at which p occurs in s
Occurrences(s, p) == {i \in 1..(Len(s) - Len(p) + 1) : SubSeq(s, i, i + Len(p) - 1) = p}
\* p in s
Contains(s, p) == Occurrences(s, p) # {}

\* s.strip(chars)
StripChars(s, chars) ==
    LET keep == {i \in 1..Len(s) : Ch(s, i) \notin chars}
    IN IF keep = {} THEN "" ELSE SubSeq(s, Min(keep), Max(keep))
\* s.strip()
Strip(s) == StripChars(s, Whitespace)

\* s.split(sep)
RECURSIVE Split(_, _)
Split(s, sep) ==
    LET occ == Occurrences(s, sep)
    IN IF occ = {} THEN <<s>>
       ELSE <<SubSeq(s, 1, Min(occ) - 1)>>
            \o Split(SubSeq(s, Min(occ) + Len(sep), Len(s)), sep)

\* sep.join(parts)
RECURSIVE Join(_, _)
Join(parts, sep) ==
    IF parts = << >> THEN ""
    ELSE IF Len(parts) = 1 THEN parts[1]
    ELSE parts[1] \o sep \o Join(Tail(parts), sep)

\* the characters of s that are not in chars, in order: re.sub(r'[...]', '', s)
\* (halving keeps the recursion shallow)
RECURSIVE RemoveChars(_, _)
RemoveChars(s, chars) ==
    IF Len(s) = 0 THEN ""
    ELSE IF Len(s) = 1 THEN (IF s \in chars THEN "" ELSE s)
    ELSE RemoveChars(SubSeq(s, 1, Len(s) \div 2), chars)
         \o RemoveChars(SubSeq(s, Len(s) \div 2 + 1, Len(s)), chars)

\* the keyword kw (written in upper case) stands at position i of s, in any letter case
MatchCI(s, i, kw) ==
    /\ i >= 1
    /\ i + Len(kw) - 1 <= Len(s)
    /\ \A k \in 1..Len(kw) : UpperCh(Ch(s, i + k - 1)) = Ch(kw, k)

\* the length of the run of whitespace that starts at position i of s: regex \s*
WsRun(s, i) ==
    LET others == {j \in i..Len(s) : Ch(s, j) \notin Whitespace}
    IN IF others = {} THEN Len(s) - i + 1 ELSE Min(others) - i

(***************************************************************************)
(* extract_column_names_from_sql                                           *)
(***************************************************************************)
NoMatch == [found |-> FALSE, group |-> ""]
Match(g) == [found |-> TRUE, group |-> g]

\* \s+FROM matches at position e
WsThenFrom(s, e) == WsRun(s, e) >= 1 /\ MatchCI(s, e + WsRun(s, e), "FROM")

\* SELECT\s+(.*?)\s+FROM anchored at position i: \s+ is greedy and gives
\* whitespace back only when nothing matches otherwise, (.*?) is lazy
SelectClauseAt(s, i) ==
    LET Clause(w, g, ends) ==
            IF ends # {} THEN Match(SubSeq(s, g, Min(ends) - 1))
            ELSE IF w >= 2 /\ MatchCI(s, g, "FROM") THEN Match("")
            ELSE NoMatch
        Group(w, g) == Clause(w, g, {e \in g..Len(s) : WsThenFrom(s, e)})
        Space(w) ==
            IF ~MatchCI(s, i, "SELECT") \/ w = 0 THEN NoMatch ELSE Group(w, i + 6 + w)
    IN Space(WsRun(s, i + 6))

\* re.search(r'SELECT\s+(.*?)\s+FROM', sql_query, re.IGNORECASE | re.DOTALL)
select_match(s) ==
    LET First(starts) == IF starts = {} THEN 0 ELSE Min(starts)
    IN SelectClauseAt(s, First({i \in 1..Len(s) : MatchCI(s, i, "SELECT")
                                                  /\ SelectClauseAt(s, i).found}))

\* paren_depth when the loop reaches position i: the "(" less the ")" before it
ParenDepthAt(select_clause, i) ==
    Cardinality({j \in 1..(i - 1) : Ch(select_clause, j) = "("})
    - Cardinality({j \in 1..(i - 1) : Ch(select_clause, j) = ")"})

\* the commas at which the loop closes a column: those met at depth 0
SplitPoints(select_clause) ==
    {i \in 1..Len(select_clause) :
        Ch(select_clause, i) = "," /\ ParenDepthAt(select_clause, i) = 0}

\* the columns the loop has appended on reaching the end of the clause, from
\* position from on; the text after the last comma is a column only if it
\* is not empty
RECURSIVE SplitColumns(_, _)
SplitColumns(select_clause, from) ==
    LET Last(current_col) == IF current_col # "" THEN <<Strip(current_col)>> ELSE << >>
        At(comma) ==
            <<Strip(SubSeq(select_clause, from, comma - 1))>>
            \o SplitColumns(select_clause, comma + 1)
        Commas(commas) ==
            IF commas = {} THEN Last(SubSeq(select_clause, from, Len(select_clause)))
            ELSE At(Min(commas))
    IN Commas({i \in SplitPoints(select_clause) : i >= from})

\* re.search(r'\bAS\s+(.+)$', col, re.IGNORECASE): the leftmost AS that starts a
\* word and is followed by whitespace and a rest without a line break
as_match(col) ==
    LET rest(j) == j + 2 + WsRun(col, j + 2)
        starts == {j \in 1..Len(col) :
                      /\ MatchCI(col, j, "AS")
                      /\ (j = 1 \/ ~IsWordCh(Ch(col, j - 1)))
                      /\ WsRun(col, j + 2) >= 1
                      /\ rest(j) <= Len(col)
                      /\ ~Contains(SubSeq(col, rest(j), Len(col)), "\n")}
    IN IF starts = {} THEN NoMatch
       ELSE Match(SubSeq(col, rest(Min(starts)), Len(col)))

Brackets == {"[", "]"}

\* line 71, re.sub(r'.*\(.*?\)', col, ''): the text searched is the third
\* argument, the empty string, and col is the replacement; the pattern needs
\* a parenthesis, finds none in '' and the result is ''
RemoveFunctions(col) == ""

\* the name one projection contributes: <<name>>, or << >> when it is skipped
ColumnName(column) ==
    LET Last(parts) == parts[Len(parts)]
        Named(col, name) ==
            IF name # "" THEN <<name>> ELSE <<RemoveChars(Strip(col), Brackets)>>
        Cleaned(col, cleaned) ==
            IF cleaned = "*" THEN << >>
            ELSE Named(col, IF Contains(cleaned, ".")
                            THEN Last(Split(cleaned, ".")) ELSE cleaned)
        Alias(col, m) ==
            IF m.found THEN <<RemoveChars(Strip(m.group), Brackets)>>
            ELSE Cleaned(col, Strip(RemoveChars(RemoveFunctions(col), Brackets)))
        Col(col) == Alias(col, as_match(col))
    IN Col(Strip(column))

RECURSIVE ColumnNames(_)
ColumnNames(columns) ==
    IF columns = << >> THEN << >>
    ELSE ColumnName(Head(columns)) \o ColumnNames(Tail(columns))

\* not x, for the values a query or a raw result can be
Falsy(x) ==
    \/ x.t = "none"
    \/ x.t = "bool" /\ ~x.b
    \/ x.t = "int" /\ x.n = 0
    \/ x.t = "float" /\ x.m = 0
    \/ x.t = "str" /\ x.s = ""
    \/ x.t \in {"list", "tuple"} /\ x.l = << >>
    \/ x.t = "dict" /\ x.d = << >>

\* the body of the try block: the list of names, or the exception it raises
extract_column_names_body(query) ==
    IF Falsy(query) THEN Ok(<< >>)
    ELSE IF query.t # "str" THEN Raise("TypeError")
    ELSE LET Clause(m) ==
                 IF ~m.found THEN Ok(<< >>)
                 ELSE Ok(ColumnNames(SplitColumns(m.group, 1)))
         IN Clause(select_match(query.s))

\* extract_column_names_from_sql(sql_query): a sequence of strings
extract_column_names_from_sql(query) ==
    LET Caught(r) == IF IsRaise(r) THEN << >> ELSE r.v
    IN Caught(extract_column_names_body(query))

(***************************************************************************)
(* ast.literal_eval, for the literals a rendered result set is written in: *)
(* lists, tuples, parenthesised values, decimal integers and floats with   *)
(* an optional sign, quoted strings without escapes, None, True and False. *)
(* A name, a call or an arithmetic expression parses but is no literal     *)
(* (ValueError); any other text is a SyntaxError.                          *)
(***************************************************************************)
PFail == [ok |-> FALSE, v |-> PyNone, i |-> 0, lit |-> FALSE]
POk(v, i, lit) == [ok |-> TRUE, v |-> v, i |-> i, lit |-> lit]

SkipWs(s, i) == i + WsRun(s, i)

\* the length of the run of characters of the set chars that starts at i
RunOf(s, i, chars) ==
    LET others == {j \in i..Len(s) : Ch(s, j) \notin chars}
    IN IF others = {} THEN Len(s) - i + 1 ELSE Min(others) - i

DigitValue(c) == CHOOSE n \in 0..9 : Ch("0123456789", n + 1) = c

\* the number a run of decimal digits writes
RECURSIVE IntOf(_)
IntOf(ds) ==
    IF ds = "" THEN 0
    ELSE 10 * IntOf(SubSeq(ds, 1, Len(ds) - 1)) + DigitValue(Ch(ds, Len(ds)))

\* 10^n
RECURSIVE Pow10(_)
Pow10(n) == IF n = 0 THEN 1 ELSE 10 * Pow10(n - 1)

\* the float written as the digits whole, a point and the digits frac
FloatOf(whole, frac) ==
    LET zeros == Len(frac) - Len(StripChars("1" \o frac, {"0"})) + 1
        kept == SubSeq(frac, 1, Len(frac) - zeros)
    IN PyFloat(IntOf(whole) * Pow10(Len(kept)) + IntOf(kept), Len(kept))

\* -x for a number x
Negate(x) ==
    IF x.t = "int" THEN PyInt(0 - x.n) ELSE PyFloat(0 - x.m, x.e)

\* a number literal at position i: digits, or digits "." digits
PyNumber(s, i) ==
    LET Number(d, whole, isFloat, end) ==
            IF IsWordCh(Ch(s, end)) THEN PFail
            ELSE IF isFloat
            THEN POk(FloatOf(whole, SubSeq(s, i + d + 1, end - 1)), end, TRUE)
            ELSE IF d > 1 /\ Ch(s, i) = "0" /\ IntOf(whole) # 0 THEN PFail
            ELSE POk(PyInt(IntOf(whole)), end, TRUE)
        Point(d, isFloat) ==
            Number(d, SubSeq(s, i, i + d - 1), isFloat,
                   IF isFloat THEN i + d + 1 + RunOf(s, i + d + 1, Digits) ELSE i + d)
        Whole(d) == Point(d, Ch(s, i + d) = ".")
    IN Whole(RunOf(s, i, Digits))

\* a string literal at position i, up to the next quote of the same kind;
\* string literals that follow one another are one string
RECURSIVE PyString(_, _)
PyString(s, i) ==
    LET closing == {j \in (i + 1)..Len(s) : Ch(s, j) = Ch(s, i)}
        text == SubSeq(s, i + 1, Min(closing) - 1)
        next == SkipWs(s, Min(closing) + 1)
        more == PyString(s, next)
    IN IF closing = {} THEN PFail
       ELSE IF Ch(s, next) \in {"'", "\""}
            THEN IF more.ok THEN POk(PyStr(text \o more.v.s), more.i, TRUE) ELSE PFail
            ELSE POk(PyStr(text), Min(closing) + 1, TRUE)

PItems(vs, i, lit, commas) == [ok |-> TRUE, vs |-> vs, i |-> i, lit |-> lit, commas |-> commas]
PItemsFail == [ok |-> FALSE, vs |-> << >>, i |-> 0, lit |-> FALSE, commas |-> 0]

RECURSIVE PyExpr(_, _), PyItems(_, _, _), PyAtom(_, _)

\* the expressions from position i up to the closing character, separated by
\* commas, the last of which may be followed by one more comma
PyItems(s, i, close) ==
    LET More(e, rest) ==
            IF ~rest.ok THEN PItemsFail
            ELSE PItems(<<e.v>> \o rest.vs, rest.i, e.lit /\ rest.lit, rest.commas + 1)
        After(e, k) ==
            IF Ch(s, k) = close THEN PItems(<<e.v>>, k + 1, e.lit, 0)
            ELSE IF Ch(s, k) # "," THEN PItemsFail
            ELSE More(e, PyItems(s, k + 1, close))
        Item(e) == IF ~e.ok THEN PItemsFail ELSE After(e, SkipWs(s, e.i))
        At(j) ==
            IF Ch(s, j) = close THEN PItems(<< >>, j + 1, TRUE, 0)
            ELSE Item(PyExpr(s, j))
    IN At(SkipWs(s, i))

PyAtom(s, i) ==
    LET Display(c, items) ==
            IF ~items.ok THEN PFail
            ELSE IF c = "[" THEN POk(PyList(items.vs), items.i, items.lit)
            ELSE IF Len(items.vs) = 1 /\ items.commas = 0
                 THEN POk(items.vs[1], items.i, items.lit)
                 ELSE POk(PyTuple(items.vs), items.i, items.lit)
        Signed(c, operand) ==
            IF ~operand.ok THEN PFail
            ELSE IF operand.lit /\ operand.v.t \in {"int", "float"}
                 THEN POk(IF c = "-" THEN Negate(operand.v) ELSE operand.v, operand.i, TRUE)
                 ELSE POk(PyNone, operand.i, FALSE)
        Call(args) == IF args.ok THEN POk(PyNone, args.i, FALSE) ELSE PFail
        Name(name, end, paren) ==
            IF name = "None" THEN POk(PyNone, end, TRUE)
            ELSE IF name = "True" THEN POk(PyBool(TRUE), end, TRUE)
            ELSE IF name = "False" THEN POk(PyBool(FALSE), end, TRUE)
            ELSE IF Ch(s, paren) = "(" THEN Call(PyItems(s, paren + 1, ")"))
            ELSE POk(PyNone, end, FALSE)
        Word(w) == Name(SubSeq(s, i, i + w - 1), i + w, SkipWs(s, i + w))
        Atom(c) ==
            IF c \in {"[", "("}
            THEN Display(c, PyItems(s, i + 1, IF c = "[" THEN "]" ELSE ")"))
            ELSE IF c \in {"'", "\""} THEN PyString(s, i)
            ELSE IF c \in Digits THEN PyNumber(s, i)
            ELSE IF c \in {"-", "+"} THEN Signed(c, PyAtom(s, SkipWs(s, i + 1)))
            ELSE IF c \in LowerLetters \cup UpperLetters \cup {"_"}
            THEN Word(RunOf(s, i, LowerLetters \cup UpperLetters \cup Digits \cup {"_", "."}))
            ELSE PFail
    IN Atom(Ch(s, i))

\* an atom, or atoms joined by arithmetic operators (which is no literal)
PyExpr(s, i) ==
    LET Operation(right) == IF right.ok THEN POk(PyNone, right.i, FALSE) ELSE PFail
        After(a, k) ==
            IF Ch(s, k) \in {"+", "-", "*", "/"}
            THEN Operation(PyExpr(s, SkipWs(s, k + 1)))
            ELSE a
        Left(a) == IF ~a.ok THEN PFail ELSE After(a, SkipWs(s, a.i))
    IN Left(PyAtom(s, i))

\* ast.literal_eval(text): Ok(value), or the exception raised
literal_eval(text) ==
    LET Parsed(s, e) ==
            IF ~e.ok \/ SkipWs(s, e.i) <= Len(s) THEN Raise("SyntaxError")
            ELSE IF ~e.lit THEN Raise("ValueError")
            ELSE Ok(e.v)
        Source(s) == Parsed(s, PyExpr(s, SkipWs(s, 1)))
    IN Source(SubSeq(text, 1 + RunOf(text, 1, {" ", "\t"}), Len(text)))

(***************************************************************************)
(* json.loads, for objects, arrays, strings without escapes, numbers       *)
(* without exponent, true, false and null                                  *)
(***************************************************************************)
\* d[k] = v on a dict's items: a key already present keeps its place
DictSet(d, k, v) ==
    IF \E i \in 1..Len(d) : d[i].k = k
    THEN [i \in 1..Len(d) |-> IF d[i].k = k THEN [k |-> k, v |-> v] ELSE d[i]]
    ELSE Append(d, [k |-> k, v |-> v])

HasKey(d, k) == \E i \in 1..Len(d) : d[i].k = k
\* d[k], for a key that is present
DictGet(d, k) == d[CHOOSE i \in 1..Len(d) : d[i].k = k].v
\* list(d.keys())
DictKeys(d) == [i \in 1..Len(d) |-> d[i].k]

JFail == [ok |-> FALSE, v |-> PyNone, i |-> 0]
JOk(v, i) == [ok |-> TRUE, v |-> v, i |-> i]

\* the position of the first double quote of s from position j on, 0 when
\* there is none
RECURSIVE NextQuote(_, _)
NextQuote(s, j) ==
    IF j > Len(s) THEN 0
    ELSE IF Ch(s, j) = "\"" THEN j
    ELSE NextQuote(s, j + 1)

\* a JSON string at position i: no raw control character inside
JsonString(s, i) ==
    LET Closed(closing) ==
            LET text == SubSeq(s, i + 1, closing - 1)
            IN IF closing = 0 THEN JFail
               ELSE IF Contains(text, "\n") \/ Contains(text, "\t") THEN JFail
               ELSE JOk(PyStr(text), closing + 1)
    IN IF Ch(s, i) # "\"" THEN JFail ELSE Closed(NextQuote(s, i + 1))

\* a JSON number at position i: -?(0|[1-9][0-9]*)(.[0-9]+)?
JsonNumber(s, i) ==
    LET Number(neg, x, end) == JOk(IF neg THEN Negate(x) ELSE x, end)
        Fraction(neg, b, d, f, whole) ==
            IF d = 0 THEN JFail
            ELSE IF f > 0
            THEN Number(neg, FloatOf(whole, SubSeq(s, b + d + 1, b + d + f)), b + d + 1 + f)
            ELSE Number(neg, PyInt(IntOf(whole)), b + d)
        Whole(neg, b, d) ==
            Fraction(neg, b, d,
                     IF Ch(s, b + d) = "." THEN RunOf(s, b + d + 1, Digits) ELSE 0,
                     SubSeq(s, b, b + d - 1))
        Sign(neg, b) == Whole(neg, b, IF Ch(s, b) = "0" THEN 1 ELSE RunOf(s, b, Digits))
    IN Sign(Ch(s, i) = "-", IF Ch(s, i) = "-" THEN i + 1 ELSE i)

RECURSIVE JsonValue(_, _), JsonMembers(_, _, _), JsonElements(_, _, _)

\* the members of an object from position i on, the opening brace or a comma
\* just read, added to the items d
JsonMembers(s, i, d) ==
    LET After(items, k) ==
            IF Ch(s, k) = "}" THEN JOk(PyDict(items), k + 1)
            ELSE IF Ch(s, k) = "," THEN JsonMembers(s, k + 1, items)
            ELSE JFail
        Member(key, val) ==
            IF ~val.ok THEN JFail
            ELSE After(DictSet(d, key.v.s, val.v), SkipWs(s, val.i))
        Colon(key, colon) ==
            IF Ch(s, colon) # ":" THEN JFail
            ELSE Member(key, JsonValue(s, SkipWs(s, colon + 1)))
        Key(key) == IF ~key.ok THEN JFail ELSE Colon(key, SkipWs(s, key.i))
    IN Key(JsonString(s, SkipWs(s, i)))

\* the elements of an array from position i on, added to the list l
JsonElements(s, i, l) ==
    LET After(items, k) ==
            IF Ch(s, k) = "]" THEN JOk(PyList(items), k + 1)
            ELSE IF Ch(s, k) = "," THEN JsonElements(s, k + 1, items)
            ELSE JFail
        Element(val) ==
            IF ~val.ok THEN JFail ELSE After(Append(l, val.v), SkipWs(s, val.i))
    IN Element(JsonValue(s, SkipWs(s, i)))

JsonValue(s, i) ==
    LET Word(n) == SubSeq(s, i, Min({Len(s), i + n - 1}))
        Value(c, inner) ==
            IF c = "{" THEN
                IF Ch(s, inner) = "}" THEN JOk(PyDict(<< >>), inner + 1)
                ELSE JsonMembers(s, i + 1, << >>)
            ELSE IF c = "[" THEN
                IF Ch(s, inner) = "]" THEN JOk(PyList(<< >>), inner + 1)
                ELSE JsonElements(s, i + 1, << >>)
            ELSE IF c = "\"" THEN JsonString(s, i)
            ELSE IF c \in Digits \cup {"-"} THEN JsonNumber(s, i)
            ELSE IF Word(4) = "true" THEN JOk(PyBool(TRUE), i + 4)
            ELSE IF Word(5) = "false" THEN JOk(PyBool(FALSE), i + 5)
            ELSE IF Word(4) = "null" THEN JOk(PyNone, i + 4)
            ELSE JFail
    IN Value(Ch(s, i), SkipWs(s, i + 1))

\* json.loads(text): Ok(value) or JSONDecodeError
json_loads(text) ==
    LET Loaded(v) ==
            IF v.ok /\ SkipWs(text, v.i) > Len(text) THEN Ok(v.v)
            ELSE Raise("JSONDecodeError")
    IN Loaded(JsonValue(text, SkipWs(text, 1)))

(***************************************************************************)
(* parse_sql_results                                                       *)
(***************************************************************************)
\* str(n) for n >= 0
RECURSIVE IntToStr(_)
IntToStr(n) ==
    IF n < 10 THEN Ch("0123456789", n + 1)
    ELSE IntToStr(n \div 10) \o Ch("0123456789", (n % 10) + 1)

\* a number's text without its sign
Unsigned(v) == IF Ch(v, 1) \in {"+", "-"} THEN SubSeq(v, 2, Len(v)) ELSE v

\* int(text) succeeds: an optional sign and digits, single underscores between them
IsIntText(text) ==
    LET Digs(ds) ==
            /\ ds # ""
            /\ \A i \in 1..Len(ds) : Ch(ds, i) \in Digits \cup {"_"}
            /\ Ch(ds, 1) # "_" /\ Ch(ds, Len(ds)) # "_"
            /\ ~Contains(ds, "__")
    IN Digs(Unsigned(Strip(text)))
IntText(text) ==
    LET Signed(v, n) == PyInt(IF Ch(v, 1) = "-" THEN 0 - n ELSE n)
        Stripped(v) == Signed(v, IntOf(RemoveChars(Unsigned(v), {"_"})))
    IN Stripped(Strip(text))

\* float(text) succeeds, for a text with a decimal point and no exponent:
\* an optional sign, digits, the point, digits, one digit at least
IsFloatText(text) ==
    LET Parts(ds, parts) ==
            /\ Len(parts) = 2
            /\ parts[1] \o parts[2] # ""
            /\ \A i \in 1..Len(ds) : Ch(ds, i) \in Digits \cup {"."}
        Digs(ds) == Parts(ds, Split(ds, "."))
    IN Digs(Unsigned(Strip(text)))
FloatText(text) ==
    LET Signed(v, x) == IF Ch(v, 1) = "-" THEN Negate(x) ELSE x
        Parts(v, parts) == Signed(v, FloatOf(parts[1], parts[2]))
        Stripped(v) == Parts(v, Split(Unsigned(v), "."))
    IN Stripped(Strip(text))

\* lines 183-190: a value with a point becomes a float, one without an int,
\* and a value that converts to neither stays a string
Coerce(val) ==
    IF Contains(val, ".")
    THEN IF IsFloatText(val) THEN FloatText(val) ELSE PyStr(val)
    ELSE IF IsIntText(val) THEN IntText(val) ELSE PyStr(val)

\* (\([^\)]+\)[,\s]*)+\] matches from position i, n groups already matched
RECURSIVE TupleGroups(_, _, _)
TupleGroups(s, i, n) ==
    LET Group(next) ==
            IF next = i + 2 THEN FALSE
            ELSE TupleGroups(s, next + RunOf(s, next, Whitespace \cup {","}), n + 1)
        Closes(closes) ==
            IF Ch(s, i) # "(" \/ closes = {} THEN FALSE ELSE Group(Min(closes) + 1)
    IN IF Ch(s, i) = "]" /\ n >= 1 THEN TRUE
       ELSE Closes({j \in (i + 1)..Len(s) : Ch(s, j) = ")"})

\* re.search(tuple_pattern, data)
tuple_pattern(s) == \E i \in 1..Len(s) : Ch(s, i) = "[" /\ TupleGroups(s, i + 1, 0)

\* where \),\s*\( matches in s
TupleBreaks(s) ==
    {i \in 1..Len(s) :
        Ch(s, i) = ")" /\ Ch(s, i + 1) = "," /\ Ch(s, SkipWs(s, i + 2)) = "("}

\* re.split(r'\),\s*\(', s), from position from on
RECURSIVE ReSplitTuples(_, _)
ReSplitTuples(s, from) ==
    LET At(break) ==
            <<SubSeq(s, from, break - 1)>> \o ReSplitTuples(s, SkipWs(s, break + 2) + 1)
        Breaks(breaks) ==
            IF breaks = {} THEN <<SubSeq(s, from, Len(s))>> ELSE At(Min(breaks))
    IN Breaks({i \in TupleBreaks(s) : i >= from})

\* lines 176-192: the values of one tuple string
TupleValues(tuple_str) ==
    LET Values(vals) ==
            [i \in 1..Len(vals) |-> Coerce(StripChars(Strip(vals[i]), {"'", "\""}))]
    IN Values(Split(StripChars(tuple_str, {"(", ")"}), ","))

\* lines 173-192: the rows of the regex path
RegexRows(text) ==
    LET Rows(tuple_strings) ==
            [i \in 1..Len(tuple_strings) |-> TupleValues(tuple_strings[i])]
    IN Rows(ReSplitTuples(StripChars(text, {"[", "]"}), 1))

\* [f"col_{i}" for i in range(num_cols)]
GenericHeaders(num_cols) == [i \in 1..num_cols |-> "col_" \o IntToStr(i - 1)]

\* lines 139-153 and again 197-211: the header names and the rows that are data
Headers(rows, query) ==
    LET Chosen(headers) ==
            IF headers # << >> /\ Len(headers) = Len(rows[1])
            THEN [headers |-> headers, data_rows |-> rows]
            ELSE IF Len(rows) > 1 /\ \A i \in 1..Len(rows[1]) : rows[1][i].t = "str"
            THEN [headers |-> [i \in 1..Len(rows[1]) |-> rows[1][i].s],
                  data_rows |-> Tail(rows)]
            ELSE [headers |-> GenericHeaders(Len(rows[1])), data_rows |-> rows]
    IN Chosen(IF Falsy(query) THEN << >> ELSE extract_column_names_from_sql(query))

\* dict(zip(headers, row)): the items of the first n pairs
RECURSIVE DictZip(_, _, _)
DictZip(headers, row, n) ==
    IF n = 0 THEN << >>
    ELSE DictSet(DictZip(headers, row, n - 1), headers[n], row[n])

\* lines 155-161 and again 213-219: the rows as long as the headers, as dicts
RowsToDicts(rows, query) ==
    LET Zipped(headers, kept) ==
            PyList([i \in 1..Len(kept) |-> PyDict(DictZip(headers, kept[i], Len(headers)))])
        Kept(h) ==
            Zipped(h.headers,
                   SelectSeq(h.data_rows, LAMBDA row : Len(row) = Len(h.headers)))
    IN Kept(Headers(rows, query))

\* lines 130-135: the tuples and lists of a parsed list, each as a list of values
LiteralRows(parsed_list) ==
    LET Rows(items) == [i \in 1..Len(items) |-> items[i].l]
    IN Rows(SelectSeq(parsed_list.l, LAMBDA item : item.t \in {"tuple", "list"}))

\* the text read: what follows the first "Result:", stripped (lines 120-121)
StripLabel(text) ==
    IF Contains(text, "Result:")
    THEN Strip(SubSeq(text, Min(Occurrences(text, "Result:")) + 7, Len(text)))
    ELSE text

\* lines 125-164: Ok(result) when the literal path returns, and Unset when
\* control falls through to the regex path
LiteralPath(text, query) ==
    LET Rows(rows) == IF rows # << >> THEN Ok(RowsToDicts(rows, query)) ELSE Unset
        Parsed(lit) ==
            IF IsRaise(lit) THEN Unset
            ELSE IF lit.v.t = "list" /\ lit.v.l # << >> THEN Rows(LiteralRows(lit.v))
            ELSE Unset
    IN IF ~(Ch(Strip(text), 1) = "[" /\ Contains(text, "(")) THEN Unset
       ELSE Parsed(literal_eval(text))

\* lines 168-219
RegexPath(text, query) ==
    IF tuple_pattern(text) THEN Ok(RowsToDicts(RegexRows(text), query)) ELSE Unset

\* lines 221-227
JsonPath(text) ==
    LET Loaded(parsed_json) ==
            IF ~IsRaise(parsed_json) /\ parsed_json.v.t = "list"
            THEN Ok(parsed_json.v) ELSE Unset
    IN Loaded(json_loads(text))

\* lines 118-227 and 237-239, for a str
ParseString(raw, query) ==
    LET Json(r) == IF r # Unset THEN r ELSE Ok(PyList(<< >>))
        Regex(text, r) == IF r # Unset THEN r ELSE Json(JsonPath(text))
        Literal(text, r) == IF r # Unset THEN r ELSE Regex(text, RegexPath(text, query))
        Text(text) == Literal(text, LiteralPath(text, query))
    IN Text(StripLabel(raw))

\* what zip draws from a row: Ok(values), or TypeError when it is not iterable
Iterate(row) ==
    IF row.t \in {"tuple", "list"} THEN Ok(row.l)
    ELSE IF row.t = "str" THEN Ok([i \in 1..Len(row.s) |-> PyStr(Ch(row.s, i))])
    ELSE IF row.t = "dict" THEN Ok([i \in 1..Len(row.d) |-> PyStr(row.d[i].k)])
    ELSE Raise("TypeError")

\* lines 230-235: a list whose first element is a tuple or a list
ZipRows(rows) ==
    LET Pairs(headers, values) ==
            DictZip(headers, values, Min({Len(headers), Len(values)}))
        Zipped(headers) ==
            IF \E i \in 1..Len(rows) : IsRaise(Iterate(rows[i])) THEN Raise("TypeError")
            ELSE Ok(PyList([i \in 1..Len(rows) |->
                               PyDict(Pairs(headers, Iterate(rows[i]).v))]))
    IN Zipped(GenericHeaders(Len(rows[1].l)))

\* parse_sql_results_body without lines 113-115, the early return of a list of
\* dicts: the variant C5 is checked against
NoDictReturn(raw, query) ==
    IF Falsy(raw) THEN Ok(PyList(<< >>))
    ELSE IF raw.t = "str" THEN ParseString(raw.s, query)
    ELSE IF raw.t = "list" /\ raw.l[1].t \in {"tuple", "list"} THEN ZipRows(raw.l)
    ELSE Ok(PyList(<< >>))

\* the body of the try block: Ok(result), or the exception it raises
parse_sql_results_body(raw, query) ==
    IF Falsy(raw) THEN Ok(PyList(<< >>))
    ELSE IF raw.t = "list" /\ raw.l[1].t = "dict" THEN Ok(raw)
    ELSE IF raw.t = "str" THEN ParseString(raw.s, query)
    ELSE IF raw.t = "list" /\ raw.l[1].t \in {"tuple", "list"} THEN ZipRows(raw.l)
    ELSE Ok(PyList(<< >>))

\* parse_sql_results without its except clause, lines 241-245: the variant C8
\* is checked against
Uncaught(raw, query) ==
    LET Outcome(r) == IF IsRaise(r) THEN r ELSE r.v
    IN Outcome(parse_sql_results_body(raw, query))

\* parse_sql_results(data, sql_query): except Exception returns []
parse_sql_results(raw, query) ==
    LET Caught(r) == IF IsRaise(r) THEN PyList(<< >>) ELSE r.v
    IN Caught(parse_sql_results_body(raw, query))

(***************************************************************************)
(* Python operations the chart functions apply to values read from JSON    *)
(***************************************************************************)
\* an exception with the text str(e) gives
RaiseMsg(exc, msg) == [t |-> "raise", exc |-> exc, msg |-> msg]

\* type(x).__name__
TypeName(x) == IF x.t = "none" THEN "NoneType" ELSE x.t

KV(k, v) == [k |-> k, v |-> v]

\* d.get(key, default) for a dict d
Get(d, key, default) == IF HasKey(d.d, key) THEN DictGet(d.d, key) ELSE default

\* x.get(key, default) for any value x: only a dict has the method
GetAttr(x, key, default) ==
    IF x.t = "dict" THEN Ok(Get(x, key, default))
    ELSE RaiseMsg("AttributeError",
                  "'" \o TypeName(x) \o "' object has no attribute 'get'")

\* iter(x): the items a loop over x visits
IterItems(x) ==
    IF IsRaise(Iterate(x))
    THEN RaiseMsg("TypeError", "'" \o TypeName(x) \o "' object is not iterable")
    ELSE Iterate(x)

\* the outcomes of a comprehension, in order: the first exception ends it
Collect(rs) ==
    IF \E i \in DOMAIN rs : IsRaise(rs[i])
    THEN rs[Min({i \in DOMAIN rs : IsRaise(rs[i])})]
    ELSE Ok([i \in DOMAIN rs |-> rs[i].v])

\* [item.get(key, Default(i)) for i, item in enumerate(items)], i counted from 1
Gets(items, key, Default(_)) ==
    Collect([i \in 1..Len(items) |-> GetAttr(items[i], key, Default(i))])

IsNumber(x) == x.t \in {"int", "float", "bool"}
\* a number as mantissa and decimals: m / 10^e
Mantissa(x) == IF x.t = "int" THEN x.n ELSE IF x.t = "bool" THEN (IF x.b THEN 1 ELSE 0) ELSE x.m
Decimals(x) == IF x.t = "float" THEN x.e ELSE 0
NumEq(a, b) == Mantissa(a) * Pow10(Decimals(b)) = Mantissa(b) * Pow10(Decimals(a))
NumGreater(a, b) == Mantissa(a) * Pow10(Decimals(b)) > Mantissa(b) * Pow10(Decimals(a))

\* a == b
RECURSIVE PyEq(_, _)
PyEq(a, b) ==
    IF IsNumber(a) /\ IsNumber(b) THEN NumEq(a, b)
    ELSE IF a.t # b.t THEN FALSE
    ELSE IF a.t \in {"list", "tuple"}
    THEN Len(a.l) = Len(b.l) /\ \A i \in 1..Len(a.l) : PyEq(a.l[i], b.l[i])
    ELSE IF a.t = "dict"
    THEN /\ Len(a.d) = Len(b.d)
         /\ \A i \in 1..Len(a.d) :
                HasKey(b.d, a.d[i].k) /\ PyEq(a.d[i].v, DictGet(b.d, a.d[i].k))
    ELSE a = b

\* the printable characters in code order
CodeOrder ==
    " !\"#$%&'()*+,-./0123456789:;<=>?@ABCDEFGHIJKLMNOPQRSTUVWXYZ[\\]^_abcdefghijklmnopqrstuvwxyz{|}~"
\* ord(c) up to a monotone renumbering; control characters come first
Ord(c) ==
    IF \E i \in 1..Len(CodeOrder) : Ch(CodeOrder, i) = c
    THEN CHOOSE i \in 1..Len(CodeOrder) : Ch(CodeOrder, i) = c
    ELSE 0
\* s > t on strings
StrGreater(s, t) ==
    LET Differ(diff) ==
            IF diff = {} THEN Len(s) > Len(t)
            ELSE Ord(Ch(s, Min(diff))) > Ord(Ch(t, Min(diff)))
    IN Differ({i \in 1..Min({Len(s), Len(t)}) : Ch(s, i) # Ch(t, i)})

\* a > b: Ok(bool), or the TypeError of values that have no order
RECURSIVE PyGreater(_, _)
PyGreater(a, b) ==
    IF IsNumber(a) /\ IsNumber(b) THEN Ok(NumGreater(a, b))
    ELSE IF a.t = "str" /\ b.t = "str" THEN Ok(StrGreater(a.s, b.s))
    ELSE IF a.t = "list" /\ b.t = "list"
    THEN LET Differ(diff) ==
                 IF diff = {} THEN Ok(Len(a.l) > Len(b.l))
                 ELSE PyGreater(a.l[Min(diff)], b.l[Min(diff)])
         IN Differ({i \in 1..Min({Len(a.l), Len(b.l)}) : ~PyEq(a.l[i], b.l[i])})
    ELSE RaiseMsg("TypeError",
                  "'>' not supported between instances of '" \o TypeName(a)
                  \o "' and '" \o TypeName(b) \o "'")

\* max(values[1..n]) for n >= 1: each later value replaces the maximum when
\* it is greater
RECURSIVE PyMax(_, _)
PyMax(values, n) ==
    LET Pick(m, greater) ==
            IF IsRaise(greater) THEN greater
            ELSE IF greater.v THEN Ok(values[n]) ELSE m
        Before(m) == IF IsRaise(m) THEN m ELSE Pick(m, PyGreater(values[n], m.v))
    IN IF n = 1 THEN Ok(values[1]) ELSE Before(PyMax(values, n - 1))

\* the elements of the index set S of values, in index order
AtIndices(values, S) ==
    [k \in 1..Cardinality(S) |->
        values[CHOOSE i \in S : Cardinality({j \in S : j <= i}) = k]]

\* every value kept, repeated or not: the variant C18 is checked against
AllKeys(values) == Ok(values)

\* list(dict.fromkeys(values)): the values at their first occurrence
FromKeys(values) ==
    LET Unhashable == {i \in 1..Len(values) : values[i].t \in {"list", "dict"}}
    IN IF Unhashable # {}
       THEN RaiseMsg("TypeError",
                     "unhashable type: '" \o TypeName(values[Min(Unhashable)]) \o "'")
       ELSE Ok(AtIndices(values, {i \in 1..Len(values) :
                                     \A j \in 1..(i - 1) : ~PyEq(values[j], values[i])}))

(***************************************************************************)
(* json.dumps with the default separators, for values whose strings need   *)
(* no escape                                                               *)
(***************************************************************************)
\* repr of the float m / 10^e, m >= 0
FloatRepr(m, e) ==
    LET Pointed(ds) ==
            SubSeq(ds, 1, Len(ds) - e) \o "." \o SubSeq(ds, Len(ds) - e + 1, Len(ds))
        Padded(ds) ==
            IF Len(ds) > e THEN Pointed(ds)
            ELSE Pointed(SubSeq("000000000000", 1, e + 1 - Len(ds)) \o ds)
    IN IF e = 0 THEN IntToStr(m) \o ".0" ELSE Padded(IntToStr(m))

RECURSIVE json_dumps(_)
json_dumps(obj) ==
    LET Member(item) == "\"" \o item.k \o "\": " \o json_dumps(item.v)
    IN IF obj.t = "none" THEN "null"
       ELSE IF obj.t = "bool" THEN (IF obj.b THEN "true" ELSE "false")
       ELSE IF obj.t = "int"
       THEN (IF obj.n < 0 THEN "-" \o IntToStr(0 - obj.n) ELSE IntToStr(obj.n))
       ELSE IF obj.t = "float"
       THEN (IF obj.m < 0 THEN "-" \o FloatRepr(0 - obj.m, obj.e)
             ELSE FloatRepr(obj.m, obj.e))
       ELSE IF obj.t = "str" THEN "\"" \o obj.s \o "\""
       ELSE IF obj.t \in {"list", "tuple"}
       THEN "[" \o Join([i \in 1..Len(obj.l) |-> json_dumps(obj.l[i])], ", ") \o "]"
       ELSE "{" \o Join([i \in 1..Len(obj.d) |-> Member(obj.d[i])], ", ") \o "}"

(***************************************************************************)
(* generate_fallback_option                                                *)
(***************************************************************************)
\* line 549 (and 720): any('group' in item for item in data_array
\*                         if isinstance(item, dict))
AnyGroup(data_array) ==
    LET Items(items) ==
            IF IsRaise(items) THEN items
            ELSE Ok(\E i \in 1..Len(items.v) :
                        items.v[i].t = "dict" /\ HasKey(items.v[i].d, "group"))
    IN Items(IterItems(data_array))

TitleOf(title) == PyDict(<<KV("text", title), KV("left", PyStr("center"))>>)
AxisOf(type) == PyDict(<<KV("type", PyStr(type))>>)
CategoryAxis(labels) == PyDict(<<KV("type", PyStr("category")), KV("data", PyList(labels))>>)

\* a pie that is never a donut: the variant C21 is checked against
ScalarRadius(donut) == PyStr("50%")

\* line 552: the radius of a pie, donut telling whether inner_radius > 0
RadiusOf(donut) ==
    IF donut THEN PyList(<<PyStr("60%"), PyStr("40%")>>) ELSE PyStr("50%")

\* lines 552-570
PieOption(title, inner_radius, items) ==
    LET Point(item) ==
            IF item.t # "dict" THEN GetAttr(item, "category", PyNone)
            ELSE Ok(PyDict(<<KV("name", Get(item, "category", PyStr("Item"))),
                             KV("value", Get(item, "value", PyInt(0)))>>))
        Built(radius, points) ==
            IF IsRaise(points) THEN points
            ELSE Ok(PyDict(<<
                KV("title", PyDict(<<KV("text", title), KV("left", PyStr("center")),
                                     KV("top", PyStr("5%"))>>)),
                KV("tooltip", PyDict(<<KV("trigger", PyStr("item"))>>)),
                KV("legend", PyDict(<<KV("orient", PyStr("vertical")),
                                      KV("left", PyStr("left"))>>)),
                KV("series", PyList(<<PyDict(<<
                    KV("name", title),
                    KV("type", PyStr("pie")),
                    KV("radius", radius),
                    KV("data", PyList(points.v)),
                    KV("emphasis", PyDict(<<KV("itemStyle", PyDict(<<
                        KV("shadowBlur", PyInt(10)),
                        KV("shadowOffsetX", PyInt(0)),
                        KV("shadowColor", PyStr("rgba(0, 0, 0, 0.5)"))>>))>>))>>)>>))>>))
        Donut(greater) ==
            IF IsRaise(greater) THEN greater
            ELSE Built(RadiusOf(greater.v),
                       Collect([i \in 1..Len(items) |-> Point(items[i])]))
    IN Donut(PyGreater(inner_radius, PyInt(0)))

\* lines 574-584 and 618-627: the unique axis labels and groups, and for
\* each group the value of every label: that of the first point with this
\* label and this group, 0 when there is none
SeriesByGroup(items, axis) ==
    LET ValueAt(label, group) ==
            LET hits == {i \in 1..Len(items) :
                            /\ PyEq(Get(items[i], axis, PyNone), label)
                            /\ PyEq(Get(items[i], "group", PyNone), group)}
            IN IF hits = {} THEN PyInt(0) ELSE Get(items[Min(hits)], "value", PyInt(0))
        Crossed(labels, groups) ==
            IF IsRaise(groups) THEN groups
            ELSE Ok([labels |-> labels.v, groups |-> groups.v,
                     data |-> [g \in 1..Len(groups.v) |->
                                  [c \in 1..Len(labels.v) |->
                                      ValueAt(labels.v[c], groups.v[g])]]])
        Grouped(labels) ==
            IF IsRaise(labels) THEN labels
            ELSE Crossed(labels,
                         FromKeys(LET having == AtIndices(items,
                                            {i \in 1..Len(items) : HasKey(items[i].d, "group")})
                                  IN [i \in 1..Len(having) |-> Get(having[i], "group", PyStr(""))]))
        Labelled(labels) == IF IsRaise(labels) THEN labels ELSE Grouped(FromKeys(labels.v))
    IN Labelled(Gets(items, axis, LAMBDA i : PyStr("")))

\* a bar series with the stack identifier whatever the flag: the variant C19
\* is checked against
StackAlways(is_stacked) == <<KV("stack", PyStr("total"))>>

\* lines 591-592: the stack identifier of a bar series
StackOf(is_stacked) == IF is_stacked THEN <<KV("stack", PyStr("total"))>> ELSE << >>

\* lines 572-603
GroupedBarOption(title, is_stacked, items) ==
    LET Series(s, g) ==
            PyDict(<<KV("name", s.groups[g]), KV("type", PyStr("bar")),
                     KV("data", PyList(s.data[g]))>>
                   \o StackOf(is_stacked))
        Built(s) ==
            IF IsRaise(s) THEN s
            ELSE Ok(PyDict(<<
                KV("title", TitleOf(title)),
                KV("tooltip", PyDict(<<KV("trigger", PyStr("axis")),
                    KV("axisPointer", PyDict(<<KV("type", PyStr("shadow"))>>))>>)),
                KV("legend", PyDict(<<KV("data", PyList(s.v.groups))>>)),
                KV("xAxis", CategoryAxis(s.v.labels)),
                KV("yAxis", AxisOf("value")),
                KV("series", PyList([g \in 1..Len(s.v.groups) |-> Series(s.v, g)]))>>))
    IN Built(SeriesByGroup(items, "category"))

\* lines 606-614
SimpleBarOption(title, items) ==
    LET Built(categories, values) ==
            IF IsRaise(categories) THEN categories
            ELSE Ok(PyDict(<<
                KV("title", TitleOf(title)),
                KV("tooltip", PyDict(<< >>)),
                KV("xAxis", CategoryAxis(categories.v)),
                KV("yAxis", AxisOf("value")),
                KV("series", PyList(<<PyDict(<<KV("type", PyStr("bar")),
                                               KV("data", PyList(values.v))>>)>>))>>))
    IN Built(Gets(items, "category", LAMBDA i : PyStr("Item " \o IntToStr(i - 1))),
             Gets(items, "value", LAMBDA i : PyInt(0)))

\* a line series without area fill whatever the flag: the variant C20 is
\* checked against
NoArea(show_area) == << >>

\* lines 635-636: the area fill of a stacked line series
AreaOf(show_area) == IF show_area THEN <<KV("areaStyle", PyDict(<< >>))>> ELSE << >>

\* lines 616-649
StackedLineOption(title, is_smooth, show_area, items) ==
    LET Series(s, g) ==
            PyDict(<<KV("name", s.groups[g]), KV("type", PyStr("line")),
                     KV("stack", PyStr("total")), KV("data", PyList(s.data[g]))>>
                   \o AreaOf(show_area)
                   \o (IF is_smooth THEN <<KV("smooth", PyBool(TRUE))>> ELSE << >>))
        Built(s) ==
            IF IsRaise(s) THEN s
            ELSE Ok(PyDict(<<
                KV("title", TitleOf(title)),
                KV("tooltip", PyDict(<<KV("trigger", PyStr("axis"))>>)),
                KV("legend", PyDict(<<KV("data", PyList(s.v.groups))>>)),
                KV("xAxis", CategoryAxis(s.v.labels)),
                KV("yAxis", AxisOf("value")),
                KV("series", PyList([g \in 1..Len(s.v.groups) |-> Series(s.v, g)]))>>))
    IN Built(SeriesByGroup(items, "time"))

\* a line that is never smooth: the variant C22 is checked against
NeverSmooth(is_smooth) == << >>

\* lines 654-655: the smooth key of the series of a simple line chart
SmoothOf(is_smooth) == IF is_smooth THEN <<KV("smooth", PyBool(TRUE))>> ELSE << >>

\* lines 652-666
SimpleLineOption(title, is_smooth, show_area, items) ==
    LET Built(time_points, values) ==
            IF IsRaise(time_points) THEN time_points
            ELSE Ok(PyDict(<<
                KV("title", TitleOf(title)),
                KV("tooltip", PyDict(<<KV("trigger", PyStr("axis"))>>)),
                KV("xAxis", CategoryAxis(time_points.v)),
                KV("yAxis", AxisOf("value")),
                KV("series", PyList(<<PyDict(
                    <<KV("type", PyStr("line")), KV("data", PyList(values.v))>>
                    \o SmoothOf(is_smooth)
                    \o (IF show_area THEN <<KV("areaStyle", PyDict(<< >>))>> ELSE << >>))>>))>>))
    IN Built(Gets(items, "time", LAMBDA i : PyStr("T" \o IntToStr(i - 1))),
             Gets(items, "value", LAMBDA i : PyInt(0)))

\* max() of the values whether there are any or not: the variant C23 is
\* checked against
MaxOfAny(heatmap_data) ==
    IF heatmap_data = << >>
    THEN RaiseMsg("ValueError", "max() arg is an empty sequence")
    ELSE PyMax([i \in 1..Len(heatmap_data) |-> heatmap_data[i].l[3]], Len(heatmap_data))

\* line 684: max([item[2] for item in heatmap_data]) if heatmap_data else 100
VisualMax(heatmap_data) ==
    IF heatmap_data = << >> THEN Ok(PyInt(100))
    ELSE PyMax([i \in 1..Len(heatmap_data) |-> heatmap_data[i].l[3]], Len(heatmap_data))

\* lines 669-702
HeatmapOption(title, items) ==
    LET Triple(item) ==
            IF item.t # "dict" THEN GetAttr(item, "x", PyInt(0))
            ELSE Ok(PyList(<<Get(item, "x", PyInt(0)), Get(item, "y", PyInt(0)),
                             Get(item, "value", PyInt(0))>>))
        Built(heatmap_data, max) ==
            IF IsRaise(max) THEN max
            ELSE Ok(PyDict(<<
                KV("title", TitleOf(title)),
                KV("tooltip", PyDict(<<KV("position", PyStr("top"))>>)),
                KV("grid", PyDict(<<KV("height", PyStr("70%")), KV("top", PyStr("10%"))>>)),
                KV("xAxis", AxisOf("category")),
                KV("yAxis", AxisOf("category")),
                KV("visualMap", PyDict(<<
                    KV("min", PyInt(0)),
                    KV("max", max.v),
                    KV("calculable", PyBool(TRUE)),
                    KV("orient", PyStr("horizontal")),
                    KV("left", PyStr("center")),
                    KV("bottom", PyStr("5%"))>>)),
                KV("series", PyList(<<PyDict(<<
                    KV("name", title),
                    KV("type", PyStr("heatmap")),
                    KV("data", PyList(heatmap_data)),
                    KV("label", PyDict(<<KV("show", PyBool(TRUE))>>)),
                    KV("emphasis", PyDict(<<KV("itemStyle", PyDict(<<
                        KV("shadowBlur", PyInt(10)),
                        KV("shadowColor", PyStr("rgba(0, 0, 0, 0.5)"))>>))>>))>>)>>))>>))
        Reshaped(heatmap_data) ==
            IF IsRaise(heatmap_data) THEN heatmap_data
            ELSE Built(heatmap_data.v, VisualMax(heatmap_data.v))
    IN Reshaped(Collect([i \in 1..Len(items) |-> Triple(items[i])]))

\* lines 705-709
GenericOption(ctype, title, items) ==
    LET Built(values) ==
            IF IsRaise(values) THEN values
            ELSE Ok(PyDict(<<
                KV("title", TitleOf(title)),
                KV("tooltip", PyDict(<< >>)),
                KV("series", PyList(<<PyDict(<<KV("type", ctype),
                                               KV("data", PyList(values.v))>>)>>))>>))
    IN Built(Gets(items, "value", LAMBDA i : PyInt(0)))

\* the dict the function serialises, or the exception it raises
FallbackOption(ctype, cdata) ==
    LET title == Get(cdata, "title", PyStr("Chart"))
        is_stacked == ~Falsy(Get(cdata, "stack", PyBool(FALSE)))
        is_grouped == ~Falsy(Get(cdata, "group", PyBool(FALSE)))
        is_smooth == ~Falsy(Get(cdata, "smooth", PyBool(FALSE)))
        show_area == ~Falsy(Get(cdata, "showArea", PyBool(FALSE)))
        Typed(items, has_groups) ==
            IF ctype = PyStr("pie")
            THEN PieOption(title, Get(cdata, "innerRadius", PyInt(0)), items)
            ELSE IF ctype = PyStr("bar")
            THEN IF has_groups /\ (is_stacked \/ is_grouped)
                 THEN GroupedBarOption(title, is_stacked, items)
                 ELSE SimpleBarOption(title, items)
            ELSE IF ctype = PyStr("line")
            THEN IF has_groups /\ is_stacked
                 THEN StackedLineOption(title, is_smooth, show_area, items)
                 ELSE SimpleLineOption(title, is_smooth, show_area, items)
            ELSE IF ctype = PyStr("heatmap") THEN HeatmapOption(title, items)
            ELSE GenericOption(ctype, title, items)
        Checked(has_groups) ==
            IF IsRaise(has_groups) THEN has_groups
            ELSE Typed(IterItems(Get(cdata, "data", PyList(<< >>))).v, has_groups.v)
    IN IF cdata.t # "dict" THEN GetAttr(cdata, "data", PyNone)
       ELSE Checked(AnyGroup(Get(cdata, "data", PyList(<< >>))))

\* generate_fallback_option(chart_type, chart_data): Ok(JSON text) or the exception
generate_fallback_option(ctype, cdata) ==
    LET Dumped(option) == IF IsRaise(option) THEN option ELSE Ok(json_dumps(option.v))
    IN Dumped(FallbackOption(ctype, cdata))

(***************************************************************************)
(* The completion capability: llm.invoke(prompt) returns Ok(PyStr(content)) *)
(* or raises.  The three characters that open and close a markdown code    *)
(* block are written as three tildes.                                      *)
(***************************************************************************)
Fence == "~~~"

\* lines 298-301, 519-522 and 836-839: the content of the first code block
CleanMarkdown(content) ==
    IF Contains(content, Fence \o "json")
    THEN Strip(Split(Split(content, Fence \o "json")[2], Fence)[1])
    ELSE IF Contains(content, Fence)
    THEN Strip(Split(Split(content, Fence)[2], Fence)[1])
    ELSE content

(***************************************************************************)
(* detect_graph_request                                                    *)
(***************************************************************************)
\* line 307
DetectionDefault ==
    PyDict(<<KV("needs_graph", PyBool(FALSE)), KV("chart_type", PyNone),
             KV("reasoning", PyStr("Error in detection"))>>)

\* detect_graph_request without its except clause, lines 305-307: the
\* variant C13 is checked against
Undefended(response) ==
    LET Loaded(result) == IF IsRaise(result) THEN result ELSE result.v
    IN IF IsRaise(response) THEN response
       ELSE IF response.v.t # "str" THEN Raise("TypeError")
       ELSE Loaded(json_loads(CleanMarkdown(response.v.s)))

\* lines 293-307.  A content that is no str raises a TypeError at line 298
\* or in json.loads, caught like the exception of the capability
detect_graph_request(response) ==
    LET Loaded(result) == IF IsRaise(result) THEN DetectionDefault ELSE result.v
    IN IF IsRaise(response) \/ response.v.t # "str" THEN DetectionDefault
       ELSE Loaded(json_loads(CleanMarkdown(response.v.s)))

(***************************************************************************)
(* select_chart_type                                                       *)
(***************************************************************************)
\* s.lower()
RECURSIVE Lower(_)
Lower(s) ==
    IF Len(s) = 0 THEN ""
    ELSE IF Len(s) = 1 THEN LowerCh(s)
    ELSE Lower(SubSeq(s, 1, Len(s) \div 2)) \o Lower(SubSeq(s, Len(s) \div 2 + 1, Len(s)))

\* lines 351-353
valid_types ==
    {"bar", "line", "pie", "scatter", "heatmap", "radar", "gauge", "funnel", "sankey",
     "treemap", "sunburst", "boxplot", "candlestick", "graph", "parallel", "tree"}

\* select_chart_type without the validation of lines 355-357: the variant
\* C12 is checked against
Unvalidated(response) ==
    IF IsRaise(response) \/ response.v.t # "str" THEN PyStr("bar")
    ELSE PyStr(RemoveChars(Lower(Strip(response.v.s)), {"\"", "'"}))

\* lines 345-362.  A content that is no str has no strip method: the
\* AttributeError is caught like the exception of the capability
select_chart_type(response) ==
    LET Validated(ctype) ==
            IF ctype \notin valid_types THEN PyStr("bar") ELSE PyStr(ctype)
    IN IF IsRaise(response) \/ response.v.t # "str" THEN PyStr("bar")
       ELSE Validated(RemoveChars(Lower(Strip(response.v.s)), {"\"", "'"}))

(***************************************************************************)
(* prepare_chart_data                                                      *)
(***************************************************************************)
\* lines 387-390
NoDataPlaceholder ==
    PyDict(<<KV("data", PyList(<<PyDict(<<KV("category", PyStr("No Data")),
                                          KV("value", PyInt(0))>>)>>)),
             KV("title", PyStr("No Data Available"))>>)
\* lines 529-532
MinimalData ==
    PyDict(<<KV("data", PyList(<<PyDict(<<KV("category", PyStr("Data")),
                                          KV("value", PyInt(1))>>)>>)),
             KV("title", PyStr("Chart"))>>)

\* lines 514-532: what the response of the completion capability is turned
\* into.  A content that is no str raises a TypeError at line 519 or in
\* json.loads, caught like the exception of the capability
NormalizedData(response) ==
    LET Loaded(cdata) == IF IsRaise(cdata) THEN MinimalData ELSE cdata.v
    IN IF IsRaise(response) \/ response.v.t # "str" THEN MinimalData
       ELSE Loaded(json_loads(CleanMarkdown(response.v.s)))

\* the type of an item's key: a key that is no string is held as its text,
\* with its type in the field kt
KeyType(item) == IF "kt" \in DOMAIN item THEN item.kt ELSE "str"

\* the types of the dict keys in v that json.dumps refuses
RECURSIVE RefusedKeys(_)
RefusedKeys(v) ==
    IF v.t \in {"list", "tuple"} THEN UNION {RefusedKeys(v.l[i]) : i \in 1..Len(v.l)}
    ELSE IF v.t = "dict"
    THEN UNION {({KeyType(v.d[i])} \ {"str", "int", "float", "bool", "NoneType"})
                    \cup RefusedKeys(v.d[i].v) : i \in 1..Len(v.d)}
    ELSE {}

\* line 383, json.dumps(structured_data, default=str, indent=2): the
\* exception it raises, if any.  default=str writes every value, and a key
\* must be a str, an int, a float, a bool or None
StructuredDump(structured_data) ==
    LET Keys(refused) ==
            IF refused = {} THEN Ok(PyNone)
            ELSE RaiseMsg("TypeError", "keys must be str, int, float, bool or None, not "
                                       \o (CHOOSE type \in refused : TRUE))
    IN Keys(RefusedKeys(structured_data))

\* prepare_chart_data without the test of lines 385-390: the variant C15 is
\* checked against
AlwaysNormalized(structured_data, response) ==
    IF IsRaise(StructuredDump(structured_data)) THEN StructuredDump(structured_data)
    ELSE Ok(NormalizedData(response))

\* prepare_chart_data without its except clause, lines 526-532: the variant
\* C16 is checked against
Unguarded(structured_data, response) ==
    LET Loaded(cdata) == IF IsRaise(cdata) THEN cdata ELSE Ok(cdata.v)
    IN IF IsRaise(StructuredDump(structured_data)) THEN StructuredDump(structured_data)
       ELSE IF Falsy(structured_data) THEN Ok(NoDataPlaceholder)
       ELSE IF IsRaise(response) THEN response
       ELSE IF response.v.t # "str" THEN Raise("TypeError")
       ELSE Loaded(json_loads(CleanMarkdown(response.v.s)))

\* prepare_chart_data, given the rows parse_sql_results returned for data and
\* the response of the completion capability, which is called only when
\* there are rows: Ok(chart data), or the exception of line 383
prepare_chart_data(structured_data, response) ==
    IF IsRaise(StructuredDump(structured_data)) THEN StructuredDump(structured_data)
    ELSE IF Falsy(structured_data) THEN Ok(NoDataPlaceholder)
    ELSE Ok(NormalizedData(response))

(***************************************************************************)
(* generate_echarts_option and generate_echarts_html                       *)
(***************************************************************************)
\* s without the characters at the positions drop, from position from on
RECURSIVE Without(_, _, _)
Without(s, drop, from) ==
    LET Later(later) ==
            IF later = {} THEN SubSeq(s, from, Len(s))
            ELSE SubSeq(s, from, Min(later) - 1) \o Without(s, drop, Min(later) + 1)
    IN Later({i \in drop : i >= from})

\* re.sub(r',(\s*[}\]])', r'\1', content)
RemoveTrailingCommas(content) ==
    Without(content,
            {i \in 1..Len(content) :
                Ch(content, i) = "," /\ Ch(content, SkipWs(content, i + 1)) \in {"}", "]"}},
            1)

\* re.sub(r'//.*?\n', '\n', content): from two slashes up to the end of
\* their line, when the line ends with a line break
RECURSIVE RemoveLineComments(_)
RemoveLineComments(content) ==
    LET Ended(start, breaks) ==
            IF breaks = {} THEN content
            ELSE SubSeq(content, 1, start - 1) \o "\n"
                 \o RemoveLineComments(SubSeq(content, Min(breaks) + 1, Len(content)))
        Started(starts) ==
            IF starts = {} THEN content
            ELSE Ended(Min(starts),
                       {j \in (Min(starts) + 2)..Len(content) : Ch(content, j) = "\n"})
    IN Started(Occurrences(content, "//"))

\* re.sub(r'/\*.*?\*/', '', content, flags=re.DOTALL)
RECURSIVE RemoveBlockComments(_)
RemoveBlockComments(content) ==
    LET Closed(start, ends) ==
            IF ends = {} THEN content
            ELSE SubSeq(content, 1, start - 1)
                 \o RemoveBlockComments(SubSeq(content, Min(ends) + 2, Len(content)))
        Opened(starts) ==
            IF starts = {} THEN content
            ELSE Closed(Min(starts),
                        {j \in Occurrences(content, "*/") : j >= Min(starts) + 2})
    IN Opened(Occurrences(content, "/*"))

\* lines 720-725: the exception the lookups on chart_data raise, if any
OptionPrelude(cdata) ==
    IF cdata.t # "dict" THEN GetAttr(cdata, "data", PyNone)
    ELSE AnyGroup(Get(cdata, "data", PyList(<< >>)))

\* lines 831-869: Ok(JSON text), or the exception the fallback raises.  A
\* content that is no str raises a TypeError at line 836 or 842, handled at
\* line 867
SynthesizedOption(ctype, cdata, response) ==
    LET Second(fixed) ==
            IF IsRaise(fixed) THEN generate_fallback_option(ctype, cdata)
            ELSE Ok(json_dumps(fixed.v))
        First(content, parsed_option) ==
            IF IsRaise(parsed_option)
            THEN Second(json_loads(RemoveTrailingCommas(RemoveBlockComments(
                                       RemoveLineComments(content)))))
            ELSE Ok(json_dumps(parsed_option.v))
        Repaired(content) == First(content, json_loads(content))
    IN IF IsRaise(response) \/ response.v.t # "str"
       THEN generate_fallback_option(ctype, cdata)
       ELSE Repaired(RemoveTrailingCommas(CleanMarkdown(response.v.s)))

generate_echarts_option(ctype, cdata, response) ==
    LET Looked(prelude) ==
            IF IsRaise(prelude) THEN prelude
            ELSE SynthesizedOption(ctype, cdata, response)
    IN Looked(OptionPrelude(cdata))

\* lines 887-913: the page before and after the option
HtmlBefore ==
    "\n<!DOCTYPE html>\n<html>\n<head>\n    <meta charset=\"utf-8\">\n"
    \o "    <script src=\"https://cdn.jsdelivr.net/npm/echarts@5.4.3/dist/echarts.min.js\"></script>\n"
    \o "    <style>\n        body { margin: 0; padding: 10px; background: transparent; }\n"
    \o "        #chart { width: 100%; height: 400px; }\n    </style>\n</head>\n<body>\n"
    \o "    <div id=\"chart\"></div>\n    <script>\n"
    \o "        var chartDom = document.getElementById('chart');\n"
    \o "        var myChart = echarts.init(chartDom);\n        var option = "
HtmlAfter ==
    ";\n        myChart.setOption(option);\n        \n        // Responsive resize\n"
    \o "        window.addEventListener('resize', function() {\n"
    \o "            myChart.resize();\n        });\n    </script>\n</body>\n</html>\n"

\* line 918
ErrorDiv(e) == "<div>Error generating chart: " \o e.msg \o "</div>"

\* generate_echarts_html with an except clause that returns None instead of
\* the error text: the variant C3 is checked against
NoneOnError(option) ==
    IF IsRaise(option) THEN PyNone
    ELSE PyStr(HtmlBefore \o option.v \o HtmlAfter)

\* generate_echarts_html, given what generate_echarts_option did
generate_echarts_html(option) ==
    IF IsRaise(option) THEN PyStr(ErrorDiv(option))
    ELSE PyStr(HtmlBefore \o option.v \o HtmlAfter)

(***************************************************************************)
(* The queries and raw results the calls are made with                     *)
(***************************************************************************)
MaxProjections == 2
MaxRows == 3
MaxCols == 2

\* the sequences over S of length lo..hi
SeqsOf(S, lo, hi) == UNION {[1..n -> S] : n \in lo..hi}

\* projection expressions: plain, wildcard, qualified, call, bracketed,
\* aliased, a name that begins with from, a call with FROM inside
ProjectionSet ==
    {"a", "*", "t.b", "f(a,b)", "[c d]", "a AS n", "g(x) as [m k]",
     "CAST(x AS INT) AS n", "b AS \"q\"", "COUNT(*) AS total",
     "from_date", "EXTRACT(YEAR FROM d) AS y"}

\* the SELECT statement with the given projection list
SelectOf(projs) == "SELECT " \o Join(projs, ", ") \o " FROM t"
SelectLowerOf(projs) == "select " \o Join(projs, ",") \o "\nfrom t where a = 1"

\* queries that are no SELECT ... FROM, or no string
OtherQueries ==
    {PyStr(""), PyNone, PyInt(5), PyStr("UPDATE t SET a = 1"), PyStr("SELECT 1"),
     PyStr("SELECT  FROM t")}

\* the cell at row r, column c of a result set of the given kind: the text a
\* rendering writes for it, and its value
Cell(kind, r, c) ==
    LET n == IntToStr(10 * r + c)
        word(w) == [text |-> "'" \o w \o "'", val |-> PyStr(w)]
        int == [text |-> n, val |-> PyInt(10 * r + c)]
    IN CASE kind = "int" -> int
         [] kind = "named" -> IF c = 1 THEN word("k" \o n) ELSE int
         [] kind = "titled" -> IF r = 1 THEN word("h" \o IntToStr(c)) ELSE int
         [] kind = "same" -> IF r = 1 THEN word("h") ELSE int
         [] kind = "bare" -> IF c = 1 THEN [text |-> "K" \o n, val |-> PyStr("K" \o n)]
                             ELSE int
         [] kind = "float" -> [text |-> n \o ".50", val |-> PyFloat(100 * r + 10 * c + 5, 1)]

Kinds == {"int", "named", "titled", "same", "bare", "float"}

\* a result set of n rows of w fields; row short, if any, has one field less
Table(kind, n, w, short) ==
    [r \in 1..n |-> [c \in 1..(IF r = short THEN w - 1 ELSE w) |-> Cell(kind, r, c)]]

Tables ==
    {Table(x[1], x[2], x[3], x[4]) :
        x \in {y \in Kinds \X (1..MaxRows) \X (1..MaxCols) \X (0..MaxRows) :
                   y[4] <= y[2] /\ (y[4] = 0 \/ y[3] >= 2)}}

\* str(rows) for a list of tuples
ReprTuple(row) ==
    "(" \o Join([c \in 1..Len(row) |-> row[c].text], ", ")
        \o (IF Len(row) = 1 THEN "," ELSE "") \o ")"
ReprList(table) == "[" \o Join([r \in 1..Len(table) |-> ReprTuple(table[r])], ", ") \o "]"

\* the rows as tuples, and as dicts keyed c1, c2, ...
AsTuples(table) ==
    PyList([r \in 1..Len(table) |-> PyTuple([c \in 1..Len(table[r]) |-> table[r][c].val])])
AsDicts(table) ==
    PyList([r \in 1..Len(table) |->
        PyDict([c \in 1..Len(table[r]) |-> [k |-> "c" \o IntToStr(c), v |-> table[r][c].val]])])

\* json.dumps of the rows as dicts
JsonCell(cell) == IF cell.val.t = "str" THEN "\"" \o cell.val.s \o "\"" ELSE cell.text
JsonObject(row) ==
    "{" \o Join([c \in 1..Len(row) |-> "\"c" \o IntToStr(c) \o "\": " \o JsonCell(row[c])], ", ")
        \o "}"
JsonArray(table) == "[" \o Join([r \in 1..Len(table) |-> JsonObject(table[r])], ", ") \o "]"

\* every form a result set arrives in
FormsOf(table) ==
    {PyStr(ReprList(table)), PyStr("Result: " \o ReprList(table)), AsTuples(table),
     AsDicts(table), PyStr(JsonArray(table))}

\* raw results that are no result set: absent, empty, of another type, unparseable
OtherResults ==
    {PyNone, PyStr(""), PyList(<< >>), PyInt(0), PyInt(5), PyStr("hello"),
     PyTuple(<<PyTuple(<<PyInt(1), PyInt(2)>>)>>),
     PyDict(<<[k |-> "a", v |-> PyInt(1)]>>),
     PyList(<<PyTuple(<<PyInt(1), PyInt(2)>>), PyInt(5)>>),
     PyList(<<PyInt(1), PyInt(2)>>),
     PyList(<<PyDict(<<[k |-> "a", v |-> PyInt(1)]>>), PyInt(5)>>),
     PyStr("[1, 2, 3]"), PyStr("{\"a\": 1}"), PyStr("[(1, 2), 3]"), PyStr("[(1), (2)]"),
     PyStr("[(1, 2)"), PyStr("[(1, 'Result: x')]"), PyStr("[(K, 'a,b'), (P, 'c')]"),
     PyStr("[(Decimal('1.5'), 2)]")}

RawResults == UNION {FormsOf(table) : table \in Tables} \cup OtherResults

\* the queries a result set comes with: none, or one projecting 1..MaxCols names
ColumnQueries ==
    {PyStr("")} \cup {PyStr(SelectOf(names)) : names \in SeqsOf({"x", "y AS z"}, 1, MaxCols)}

(***************************************************************************)
(* The calls                                                               *)
(***************************************************************************)
\* no chart request is running
NoRequest ==
    /\ detection = Unset
    /\ chart_type = Unset
    /\ variant = Unset
    /\ chart_data = Unset
    /\ echarts_option = Unset
    /\ returned = Unset
    /\ calls = << >>

\* a call of extract_column_names_from_sql
InitSql ==
    /\ pc = "extract"
    /\ \E projs \in SeqsOf(ProjectionSet, 1, MaxProjections) :
          \/ projections = projs /\ sql_query = PyStr(SelectOf(projs))
          \/ projections = projs /\ sql_query = PyStr(SelectLowerOf(projs))
          \/ projections = << >> /\ sql_query \in OtherQueries
    /\ column_names = << >>
    /\ data = Unset
    /\ parsed = Unset
    /\ NoRequest
    /\ llm = Unset
    /\ answer = Unset

ExtractColumnNames ==
    /\ pc = "extract"
    /\ column_names' = extract_column_names_from_sql(sql_query)
    /\ pc' = "extracted"
    /\ UNCHANGED <<sql_query, projections, data, parsed, request, llm, answer>>

SpecSql == InitSql /\ [][ExtractColumnNames]_vars

\* a call of parse_sql_results
InitParse ==
    /\ pc = "parse"
    /\ data \in RawResults
    /\ sql_query \in ColumnQueries
    /\ projections = << >>
    /\ column_names = << >>
    /\ parsed = Unset
    /\ NoRequest
    /\ llm = Unset
    /\ answer = Unset

ParseSqlResults ==
    /\ pc = "parse"
    /\ parsed' = parse_sql_results(data, sql_query)
    /\ pc' = "parsed"
    /\ UNCHANGED <<sql_query, projections, column_names, data, request, llm, answer>>

SpecParse == InitParse /\ [][ParseSqlResults]_vars

\* parse_sql_results called on its own result, with the same query
ParseSqlResultsAgain ==
    /\ pc = "parsed"
    /\ returned' = Ok(parse_sql_results(parsed, sql_query))
    /\ pc' = "reparsed"
    /\ UNCHANGED <<sql_query, projections, column_names, data, parsed, detection,
                   chart_type, variant, chart_data, echarts_option, calls, llm, answer>>

SpecParseTwice == InitParse /\ [][ParseSqlResults \/ ParseSqlResultsAgain]_vars

(***************************************************************************)
(* Inputs of the chart pipeline: raw results and queries, and what the     *)
(* completion capability does at each of its calls: it raises, or returns  *)
(* a well-formed response (bare or in a code block), text that is no JSON, *)
(* or JSON of another shape than the one asked for.                        *)
(***************************************************************************)
LlmRaises == RaiseMsg("RuntimeError", "completion failed")
Content(s) == Ok(PyStr(s))
\* the text in a code block labelled json
Fenced(s) == Fence \o "json\n" \o s \o "\n" \o Fence

ChartResults ==
    {PyStr("[('King', 5), ('Pierce', 3)]"),
     PyStr("Result: [(King, 5000), (Pierce, 3000)]"),
     PyList(<<PyDict(<<KV("County", PyStr("King")), KV("n", PyInt(5))>>)>>),
     PyStr(""),
     PyStr("no rows"),
     PyList(<<PyTuple(<<PyInt(1), PyInt(2)>>), PyInt(5)>>),
     PyList(<<PyDict(<<[k |-> "(1, 2)", v |-> PyInt(3), kt |-> "tuple"]>>)>>)}

ChartQueries ==
    {PyStr(""), PyStr("SELECT County, COUNT(*) AS n FROM EVs GROUP BY County"), PyInt(5)}

DetectResponses ==
    {LlmRaises,
     Content("{\"needs_graph\": true, \"chart_type\": \"bar\", \"variant\": \"stacked\", \"reasoning\": \"asked\"}"),
     Content("{\"needs_graph\": true, \"chart_type\": \"line\", \"variant\": null, \"reasoning\": \"trend\"}"),
     Content(Fenced("{\"needs_graph\": true, \"chart_type\": \"pie\", \"variant\": \"donut\", \"reasoning\": \"share\"}")),
     Content("Sure:\n" \o Fence \o "\n{\"needs_graph\": true, \"chart_type\": \"heatmap\", \"variant\": null}\n" \o Fence),
     Content("{\"needs_graph\": true, \"chart_type\": \"radar\", \"variant\": null, \"reasoning\": \"r\"}"),
     Content("{\"needs_graph\": true, \"chart_type\": \"histogram\", \"variant\": null, \"reasoning\": \"r\"}"),
     Content("{\"needs_graph\": true, \"chart_type\": null, \"variant\": null, \"reasoning\": \"visualize\"}"),
     Content("{\"needs_graph\": true}"),
     Content("{\"needs_graph\": false, \"chart_type\": null, \"variant\": null, \"reasoning\": \"count only\"}"),
     Content("{\"chart_type\": \"bar\"}"),
     Content("The user wants a bar chart."),
     Content("[true, \"bar\"]"),
     Content("\"yes\"")}

SelectResponses ==
    {LlmRaises,
     Content("line"),
     Content(" \"Pie\"\n"),
     Content("'heatmap'"),
     Content("histogram"),
     Content("I suggest a bar chart.")}

SimplePoints == "[{\"category\": \"King\", \"value\": 5}, {\"category\": \"Pierce\", \"value\": 3}]"
GroupPoints ==
    "[{\"category\": \"King\", \"value\": 5, \"group\": \"BEV\"}, "
    \o "{\"category\": \"King\", \"value\": 2, \"group\": \"PHEV\"}, "
    \o "{\"category\": \"Pierce\", \"value\": 3, \"group\": \"BEV\"}]"
TimePoints ==
    "[{\"time\": \"2021\", \"value\": 8, \"group\": \"PHEV\"}, "
    \o "{\"time\": \"2020\", \"value\": 1, \"group\": \"BEV\"}, "
    \o "{\"time\": \"2021\", \"value\": 4, \"group\": \"BEV\"}]"

NormalizeResponses ==
    {LlmRaises,
     Content("{\"data\": " \o SimplePoints \o ", \"title\": \"EVs\", \"axisXTitle\": \"County\"}"),
     Content(Fenced("{\"data\": " \o SimplePoints \o ", \"title\": \"EVs\"}")),
     Content("{\"data\": " \o GroupPoints \o ", \"stack\": true, \"title\": \"EVs\"}"),
     Content("{\"data\": " \o GroupPoints \o ", \"group\": true, \"title\": \"EVs\"}"),
     Content("{\"data\": " \o GroupPoints \o ", \"title\": \"EVs\"}"),
     Content("{\"data\": " \o SimplePoints \o ", \"stack\": true}"),
     Content("{\"data\": " \o TimePoints \o ", \"stack\": true, \"showArea\": true, \"smooth\": true}"),
     Content("{\"data\": [{\"time\": \"2020\", \"value\": 1}, {\"value\": 2.5}], \"smooth\": true, \"showArea\": false}"),
     Content("{\"data\": [{\"category\": \"BEV\", \"value\": 7}, {\"value\": 3}], \"innerRadius\": 0.6, \"title\": \"Share\"}"),
     Content("{\"data\": [{\"category\": \"BEV\", \"value\": 7}], \"innerRadius\": \"60%\"}"),
     Content("{\"data\": [{\"x\": \"a\", \"y\": \"b\", \"value\": 1}, {\"x\": \"c\", \"y\": \"d\", \"value\": 20}]}"),
     Content("{\"data\": [{\"x\": \"a\", \"y\": \"b\", \"value\": 1}, {\"x\": \"c\", \"value\": \"high\"}]}"),
     Content("{\"data\": [], \"title\": \"Empty\"}"),
     Content("{\"title\": \"No points\"}"),
     Content("{\"data\": [1, 2]}"),
     Content("{\"data\": 5}"),
     Content("[1, 2]"),
     Content("42"),
     Content("Here is the data you asked for.")}

SynthesizeResponses ==
    {LlmRaises,
     Content("{\"title\": {\"text\": \"EVs\"}, \"series\": [{\"type\": \"bar\", \"data\": [5, 3]}]}"),
     Content(Fenced("{\"series\": [{\"type\": \"bar\", \"data\": [5, 3],}],}")),
     Content("{\"series\": [{\"type\": \"line\", \"data\": [1.5]}] // one series\n}"),
     Content("/* option */ {\"series\": []}"),
     Content("{\"title\": {\"text\": \"EVs\"}}"),
     Content("[1, 2]"),
     Content("42"),
     Content("Here is your chart.")}

(***************************************************************************)
(* generate_chart_for_query: one action per call of the completion         *)
(* capability, with the code up to the next call or the return             *)
(***************************************************************************)
InitChart ==
    /\ pc = "detect"
    /\ sql_query \in ChartQueries
    /\ data \in ChartResults
    /\ projections = << >>
    /\ column_names = << >>
    /\ parsed = Unset
    /\ NoRequest
    /\ llm = Unset
    /\ answer = Unset

\* the exception handed on to the caller, as without lines 978-982: the variant
\* C1 is checked against
Propagate(e) == e

\* line 978: except Exception returns None
ReturnNone(e) == Ok(PyNone)

\* line 941, sql_query[:200] if sql_query else 'None': the exception it
\* raises, if any
QueryPreview(query) ==
    IF Falsy(query) \/ query.t \in {"str", "list", "tuple"} THEN Ok(PyNone)
    ELSE RaiseMsg("TypeError", "'" \o TypeName(query) \o "' object is not subscriptable")

\* lines 934-944: the request returns before the first call
ReturnAtEntry ==
    /\ pc = "detect"
    /\ IsRaise(QueryPreview(sql_query))
    /\ returned' = ReturnNone(QueryPreview(sql_query))
    /\ pc' = "done"
    /\ UNCHANGED <<sql_query, projections, column_names, data, parsed, detection,
                   chart_type, variant, chart_data, echarts_option, calls, llm, answer>>

\* the chart type selected whatever the intent gives: the variant C24 is
\* checked against
AlwaysSelect(type) == "select"

\* line 960, if not chart_type: the step that follows the intent
AfterDetection(type) == IF Falsy(type) THEN "select" ELSE "prepare"

\* lines 948-962
DetectGraphRequest ==
    /\ pc = "detect"
    /\ ~IsRaise(QueryPreview(sql_query))
    /\ \E response \in DetectResponses :
           LET Wanted(type) ==
                   /\ chart_type' = type
                   /\ variant' = Get(detection', "variant", PyNone)
                   /\ returned' = returned
                   /\ pc' = AfterDetection(type)
               Omitted(outcome) ==
                   /\ returned' = outcome
                   /\ pc' = "done"
                   /\ UNCHANGED <<chart_type, variant>>
               Needed(needs_graph) ==
                   IF IsRaise(needs_graph) THEN Omitted(ReturnNone(needs_graph))
                   ELSE IF Falsy(needs_graph.v) THEN Omitted(Ok(PyNone))
                   ELSE Wanted(Get(detection', "chart_type", PyNone))
           IN /\ detection' = detect_graph_request(response)
              /\ Needed(GetAttr(detection', "needs_graph", PyBool(FALSE)))
    /\ calls' = Append(calls, "detect_graph_request")
    /\ UNCHANGED <<sql_query, projections, column_names, data, parsed,
                   chart_data, echarts_option, llm, answer>>

\* line 962
SelectChartType ==
    /\ pc = "select"
    /\ \E response \in SelectResponses : chart_type' = select_chart_type(response)
    /\ calls' = Append(calls, "select_chart_type")
    /\ pc' = "prepare"
    /\ UNCHANGED <<sql_query, projections, column_names, data, parsed,
                   detection, variant, chart_data, echarts_option, returned, llm, answer>>

\* line 970
PrepareChartData ==
    /\ pc = "prepare"
    /\ parsed' = parse_sql_results(data, sql_query)
    /\ \E response \in NormalizeResponses :
           LET Prepared(r) ==
                   IF IsRaise(r)
                   THEN /\ returned' = ReturnNone(r)
                        /\ pc' = "done"
                        /\ chart_data' = chart_data
                   ELSE /\ chart_data' = r.v
                        /\ pc' = "html"
                        /\ returned' = returned
           IN Prepared(prepare_chart_data(parsed', response))
    /\ calls' = IF Falsy(parsed') \/ IsRaise(StructuredDump(parsed')) THEN calls
                ELSE Append(calls, "prepare_chart_data")
    /\ UNCHANGED <<sql_query, projections, column_names, data,
                   detection, chart_type, variant, echarts_option, llm, answer>>

\* lines 974-976
GenerateEchartsHtml ==
    /\ pc = "html"
    /\ \E response \in SynthesizeResponses :
           LET Returned(option) ==
                   /\ echarts_option' = option
                   /\ returned' = Ok(generate_echarts_html(option))
           IN Returned(generate_echarts_option(chart_type, chart_data, response))
    /\ calls' = IF IsRaise(OptionPrelude(chart_data)) THEN calls
                ELSE Append(calls, "generate_echarts_option")
    /\ pc' = "done"
    /\ UNCHANGED <<sql_query, projections, column_names, data, parsed,
                   detection, chart_type, variant, chart_data, llm, answer>>

Next ==
    \/ ReturnAtEntry
    \/ DetectGraphRequest
    \/ SelectChartType
    \/ PrepareChartData
    \/ GenerateEchartsHtml

Spec == InitChart /\ [][Next]_vars

\* the request leaves its position in the pipeline.  Every step of Next is
\* such a step, and Next is enabled at every position but done: each action
\* is a guard on pc followed by assignments of total functions of the
\* state and of a response, and each set of responses is non-empty
Advance ==
    /\ pc \in {"detect", "select", "prepare", "html"}
    /\ pc' \in {"select", "prepare", "html", "done"}
    /\ pc' # pc

\* every call of the completion capability returns or raises, and the
\* request runs on: weak fairness of Next, stated on its steps' effect on pc
FairSpec == Spec /\ WF_pc(Advance)

(***************************************************************************)
(* select_chart_type called on its own                                     *)
(***************************************************************************)
\* the ways a response writes a chart type name
Capital(name) == UpperCh(SubSeq(name, 1, 1)) \o SubSeq(name, 2, Len(name))
Decorated(name) ==
    {name, Capital(name), "\"" \o Capital(name) \o "\"", "'" \o name \o "'",
     " " \o name \o "\n", "\"" \o name \o " \"",
     SubSeq(name, 1, 2) \o "\"" \o SubSeq(name, 3, Len(name)),
     name \o " chart", name \o "s"}

\* the completion capability answers with a chart type name, with another
\* word, with a sentence, with nothing, with a content that is no text,
\* or raises
SelectAnswers ==
    {LlmRaises, Ok(PyNone), Ok(PyList(<<PyStr("bar")>>)), Content(""), Content("\"\""),
     Content("histogram"), Content("I suggest a bar chart."), Content("bar\nline")}
    \cup {Content(text) : text \in UNION {Decorated(name) : name \in valid_types}}

InitSelect ==
    /\ pc = "select"
    /\ llm \in SelectAnswers
    /\ answer = Unset
    /\ sql_query = PyStr("")
    /\ data = PyStr("")
    /\ projections = << >>
    /\ column_names = << >>
    /\ parsed = Unset
    /\ NoRequest

CallSelectChartType ==
    /\ pc = "select"
    /\ chart_type' = select_chart_type(llm)
    /\ calls' = Append(calls, "select_chart_type")
    /\ pc' = "selected"
    /\ UNCHANGED <<sql_query, projections, column_names, data, parsed,
                   detection, variant, chart_data, echarts_option, returned, llm, answer>>

SpecSelect == InitSelect /\ [][CallSelectChartType]_vars

(***************************************************************************)
(* detect_graph_request called on its own                                  *)
(***************************************************************************)
\* a JSON scalar as it is written and as it is read
Word(w) == [text |-> "\"" \o w \o "\"", val |-> PyStr(w)]
Null == [text |-> "null", val |-> PyNone]
True == [text |-> "true", val |-> PyBool(TRUE)]
False == [text |-> "false", val |-> PyBool(FALSE)]

\* the intent object the prompt asks for, as text and as value
IntentText(needs_graph, type, var) ==
    "{\"needs_graph\": " \o needs_graph.text \o ", \"chart_type\": " \o type.text
        \o ",\n \"variant\": " \o var.text \o ", \"reasoning\": \"asked\"}"
Intent(needs_graph, type, var) ==
    PyDict(<<KV("needs_graph", needs_graph.val), KV("chart_type", type.val),
             KV("variant", var.val), KV("reasoning", PyStr("asked"))>>)

\* a JSON text bare, in a code block labelled json or JSON, and in a plain
\* code block after a sentence
Wrappings(text) ==
    {text, Fenced(text), Fence \o "JSON\n" \o text \o "\n" \o Fence,
     "Here it is:\n" \o Fence \o "\n" \o text \o "\n" \o Fence \o "\n"}

IntentAnswers ==
    UNION {{[llm |-> Content(text), answer |-> Intent(needs_graph, type, var)] :
               text \in Wrappings(IntentText(needs_graph, type, var))} :
           needs_graph \in {True, False},
           type \in {Word("bar"), Word("line"), Word("histogram"), Null},
           var \in {Word("stacked"), Word("donut"), Null}}

\* the capability raises, or its content is no JSON text
DetectFailures ==
    {LlmRaises, Ok(PyNone), Ok(PyList(<<PyStr("{}")>>)), Content(""),
     Content("The user wants a bar chart."),
     Content("{\"needs_graph\": true"),
     Content("{\"needs_graph\": true} as asked"),
     Content("{'needs_graph': True}"),
     Content(Fenced("no chart")),
     Content(Fence \o "json")}

\* JSON texts that are no object
OtherJson == {Content("[true, \"bar\"]"), Content("\"yes\""), Content("42"), Content("null")}

InitDetect ==
    /\ pc = "detect"
    /\ \/ \E a \in IntentAnswers : llm = a.llm /\ answer = a.answer
       \/ llm \in DetectFailures \cup OtherJson /\ answer = Unset
    /\ sql_query = PyStr("")
    /\ data = PyStr("")
    /\ projections = << >>
    /\ column_names = << >>
    /\ parsed = Unset
    /\ NoRequest

CallDetectGraphRequest ==
    /\ pc = "detect"
    /\ detection' = detect_graph_request(llm)
    /\ calls' = Append(calls, "detect_graph_request")
    /\ pc' = "detected"
    /\ UNCHANGED <<sql_query, projections, column_names, data, parsed,
                   chart_type, variant, chart_data, echarts_option, returned, llm, answer>>

SpecDetect == InitDetect /\ [][CallDetectGraphRequest]_vars

(***************************************************************************)
(* prepare_chart_data called on its own                                    *)
(***************************************************************************)
\* raw results: those of a chart request, and more that hold no row
PrepareResults ==
    ChartResults \cup {PyNone, PyList(<< >>), PyStr("[]"), PyStr("Result: []")}

\* the capability raises, or its content is no JSON text once the code
\* block is taken out of it
NormalizeFailures ==
    {LlmRaises, Ok(PyNone), Ok(PyDict(<<KV("data", PyList(<< >>))>>)), Content(""),
     Content("Here is the data you asked for."),
     Content("{\"data\": " \o SimplePoints),
     Content("{'data': []}"),
     Content(Fenced("{\"data\": " \o SimplePoints \o ",}")),
     Content(Fence \o "JSON\n{\"data\": " \o SimplePoints \o "}\n" \o Fence)}

InitPrepare ==
    /\ pc = "prepare"
    /\ data \in PrepareResults
    /\ sql_query \in ChartQueries
    /\ projections = << >>
    /\ column_names = << >>
    /\ parsed = Unset
    /\ detection = Unset
    /\ chart_type \in {PyStr("bar"), PyStr("line"), PyStr("pie"), PyStr("histogram")}
    /\ variant \in {PyNone, PyStr("stacked")}
    /\ chart_data = Unset
    /\ echarts_option = Unset
    /\ returned = Unset
    /\ calls = << >>
    /\ llm \in NormalizeResponses \cup NormalizeFailures
    /\ answer = Unset

CallPrepareChartData ==
    /\ pc = "prepare"
    /\ parsed' = parse_sql_results(data, sql_query)
    /\ returned' = prepare_chart_data(parsed', llm)
    /\ chart_data' = IF IsRaise(returned') THEN chart_data ELSE returned'.v
    /\ calls' = IF Falsy(parsed') \/ IsRaise(StructuredDump(parsed')) THEN calls
                ELSE Append(calls, "prepare_chart_data")
    /\ pc' = "prepared"
    /\ UNCHANGED <<sql_query, projections, column_names, data,
                   detection, chart_type, variant, echarts_option, llm, answer>>

SpecPrepare == InitPrepare /\ [][CallPrepareChartData]_vars

(***************************************************************************)
(* generate_echarts_option called on its own                               *)
(***************************************************************************)
\* every chart data prepare_chart_data returns for the responses above
OptionData == {NoDataPlaceholder} \cup {NormalizedData(response) : response \in NormalizeResponses}

\* an option with one series, as a value
OneSeries(type, values) ==
    PyDict(<<KV("title", PyDict(<<KV("text", PyStr("EVs"))>>)),
             KV("series", PyList(<<PyDict(<<KV("type", PyStr(type)),
                                            KV("data", PyList(values))>>)>>))>>)

\* the texts an option with one series is written as: plain, in a code
\* block, with trailing commas, and with comments and trailing commas
OneSeriesTexts(type, values) ==
    LET Written(sep, note, comment) ==
            comment \o "{\"title\": {\"text\": \"EVs\"" \o sep \o "}, \"series\": [{\"type\": \""
                \o type \o "\", \"data\": " \o values \o sep \o "}" \o sep \o "]" \o note
                \o sep \o "\n}"
    IN {Written("", "", ""), Fenced(Written("", "", "")), Written(",", "", ""),
        Fenced(Written(", ", "", "")), Written(",", " // one series\n", "/* option */ ")}

OptionAnswers ==
    {[llm |-> Content(text), answer |-> OneSeries("bar", <<PyInt(5), PyInt(3)>>)] :
        text \in OneSeriesTexts("bar", "[5, 3]")}
    \cup {[llm |-> Content(text), answer |-> OneSeries("pie", << >>)] :
              text \in OneSeriesTexts("pie", "[]")}
    \cup {[llm |-> Content("42"), answer |-> PyInt(42)],
          [llm |-> Content(Fenced("[1, 2,]")), answer |-> PyList(<<PyInt(1), PyInt(2)>>)]}

\* the capability raises, or its content is no JSON text after the repairs
SynthesizeFailures ==
    {LlmRaises, Ok(PyNone), Ok(PyList(<<PyStr("{}")>>)), Content(""),
     Content("Here is your chart."),
     Content("{\"series\": [{\"type\": \"bar\""),
     Content("{series: []}"),
     Content(Fence \o "javascript\noption = {\"series\": []};\n" \o Fence)}

InitOption ==
    /\ pc = "option"
    /\ sql_query = PyStr("")
    /\ data = PyStr("")
    /\ projections = << >>
    /\ column_names = << >>
    /\ parsed = Unset
    /\ detection = Unset
    /\ chart_type \in {PyStr("bar"), PyStr("line"), PyStr("pie"), PyStr("heatmap"), PyStr("radar")}
    /\ variant = Unset
    /\ chart_data \in OptionData
    /\ echarts_option = Unset
    /\ returned = Unset
    /\ calls = << >>
    /\ \/ \E a \in OptionAnswers : llm = a.llm /\ answer = a.answer
       \/ llm \in SynthesizeFailures /\ answer = Unset

CallGenerateEchartsOption ==
    /\ pc = "option"
    /\ echarts_option' = generate_echarts_option(chart_type, chart_data, llm)
    /\ returned' = echarts_option'
    /\ calls' = IF IsRaise(OptionPrelude(chart_data)) THEN calls
                ELSE Append(calls, "generate_echarts_option")
    /\ pc' = "generated"
    /\ UNCHANGED <<sql_query, projections, column_names, data, parsed,
                   detection, chart_type, variant, chart_data, llm, answer>>

SpecOption == InitOption /\ [][CallGenerateEchartsOption]_vars

(***************************************************************************)
(* generate_fallback_option called on its own                              *)
(***************************************************************************)
MaxPoints == 3

\* the i-th point of a chart data: its value tells its position
GroupedPoint(i, category, group) ==
    PyDict(<<KV("category", PyStr(category)),
             KV("time", PyStr(IF category = "King" THEN "2021" ELSE "2020")),
             KV("value", PyInt(10 * i)), KV("group", PyStr(group))>>)

\* up to MaxPoints points over two categories and two groups, in every order
\* and with every repetition
GroupedPoints ==
    UNION {{[i \in 1..n |-> GroupedPoint(i, categories[i], groups[i])] :
               categories \in [1..n -> {"King", "Pierce"}],
               groups \in [1..n -> {"PHEV", "BEV"}]} : n \in 1..MaxPoints}

\* points without group, without label or without value, and no point
OtherPoints ==
    {<< >>,
     <<PyDict(<<KV("category", PyStr("King")), KV("time", PyStr("2021")), KV("value", PyInt(10))>>),
       PyDict(<<KV("category", PyStr("Pierce")), KV("time", PyStr("2020")), KV("value", PyInt(20))>>)>>,
     <<PyDict(<<KV("category", PyStr("King")), KV("time", PyStr("2021")), KV("value", PyInt(10))>>),
       GroupedPoint(2, "King", "BEV"), GroupedPoint(3, "Pierce", "PHEV")>>,
     <<GroupedPoint(1, "Pierce", "BEV"), PyDict(<<KV("value", PyInt(20)), KV("group", PyStr("PHEV"))>>)>>,
     <<PyDict(<<KV("category", PyStr("King")), KV("time", PyStr("2021")), KV("group", PyStr("BEV"))>>),
       PyDict(<<KV("value", PyInt(20))>>)>>}

\* the flags and the title of a chart data
Flag(name) == KV(name, PyBool(TRUE))
FlagSets ==
    {<< >>, <<Flag("stack")>>, <<Flag("stack"), Flag("group")>>,
     <<KV("stack", PyBool(FALSE)), Flag("group"), KV("title", PyStr("EVs"))>>,
     <<Flag("stack"), Flag("showArea"), Flag("smooth"), KV("title", PyStr("EVs"))>>,
     <<Flag("group"), Flag("showArea")>>}

FallbackData ==
    {PyDict(<<KV("data", PyList(points))>> \o flags) :
        points \in GroupedPoints \cup OtherPoints, flags \in FlagSets}

InitFallback ==
    /\ pc = "fallback"
    /\ sql_query = PyStr("")
    /\ data = PyStr("")
    /\ projections = << >>
    /\ column_names = << >>
    /\ parsed = Unset
    /\ detection = Unset
    /\ chart_type \in {PyStr("bar"), PyStr("line"), PyStr("pie")}
    /\ variant = Unset
    /\ chart_data \in FallbackData
    /\ echarts_option = Unset
    /\ returned = Unset
    /\ calls = << >>
    /\ llm = Unset
    /\ answer = Unset

CallGenerateFallbackOption ==
    /\ pc = "fallback"
    /\ echarts_option' = generate_fallback_option(chart_type, chart_data)
    /\ returned' = echarts_option'
    /\ pc' = "drawn"
    /\ UNCHANGED <<sql_query, projections, column_names, data, parsed,
                   detection, chart_type, variant, chart_data, calls, llm, answer>>

SpecFallback == InitFallback /\ [][CallGenerateFallbackOption]_vars

(***************************************************************************)
(* generate_fallback_option called on its own, on every chart type         *)
(***************************************************************************)
\* the i-th point of a chart data without groups: the values are not in
\* order, and a label comes back at every second point
PlainPoint(i) ==
    PyDict(<<KV("category", PyStr(IF i % 2 = 1 THEN "King" ELSE "Pierce")),
             KV("time", PyStr(IF i % 2 = 1 THEN "2021" ELSE "2020")),
             KV("value", PyInt(10 * ((2 * i) % 5)))>>)

PlainPoints == {[i \in 1..n |-> PlainPoint(i)] : n \in 0..MaxPoints}

\* the points of a heatmap, one with a value that is no integer
HeatPoint(x, y, value) == PyDict(<<KV("x", PyStr(x)), KV("y", PyStr(y)), KV("value", value)>>)
HeatPoints ==
    {<<HeatPoint("Mon", "AM", PyInt(3)), HeatPoint("Mon", "PM", PyFloat(75, 1)),
       HeatPoint("Tue", "AM", PyInt(5))>>,
     <<HeatPoint("Mon", "AM", PyInt(0))>>}

\* what is no sequence of point mappings with numbers as values
BrokenPoints ==
    {<<PlainPoint(1), PyInt(2)>>,
     <<HeatPoint("Mon", "AM", PyInt(3)), HeatPoint("Mon", "PM", PyStr("n/a"))>>}

\* flags absent, set, and set to false; the inner radius a fraction, zero,
\* and what is no fraction
AnyFlags ==
    {<< >>,
     <<KV("innerRadius", PyFloat(6, 1))>>,
     <<KV("innerRadius", PyInt(0)), KV("title", PyStr("EVs"))>>,
     <<KV("innerRadius", PyFloat(0, 0))>>,
     <<KV("innerRadius", PyNone)>>,
     <<KV("innerRadius", PyStr("40%"))>>,
     <<Flag("smooth")>>,
     <<Flag("showArea"), KV("title", PyStr("EVs"))>>,
     <<Flag("smooth"), Flag("showArea")>>,
     <<KV("smooth", PyBool(FALSE)), KV("showArea", PyBool(FALSE)), KV("stack", PyBool(FALSE))>>,
     <<Flag("stack"), Flag("group")>>}

AnyData ==
    {PyDict(<<KV("data", PyList(points))>> \o flags) :
        points \in PlainPoints \cup OtherPoints \cup HeatPoints \cup BrokenPoints,
        flags \in AnyFlags}
    \cup {PyDict(<<KV("title", PyStr("EVs"))>>), PyDict(<<KV("data", PyInt(42))>>)}

InitAnyFallback ==
    /\ pc = "fallback"
    /\ sql_query = PyStr("")
    /\ data = PyStr("")
    /\ projections = << >>
    /\ column_names = << >>
    /\ parsed = Unset
    /\ detection = Unset
    /\ chart_type \in {PyStr(type) : type \in valid_types}
    /\ variant = Unset
    /\ chart_data \in AnyData
    /\ echarts_option = Unset
    /\ returned = Unset
    /\ calls = << >>
    /\ llm = Unset
    /\ answer = Unset

SpecAnyFallback == InitAnyFallback /\ [][CallGenerateFallbackOption]_vars

(***************************************************************************)
(* Properties of generate_chart_for_query                                  *)
(***************************************************************************)
\* the request has returned
Done == pc = "done"

\* the result of the intent step asks for a chart: it is a mapping whose
\* needs_graph is truthy
AsksForChart(d) == d.t = "dict" /\ ~Falsy(Get(d, "needs_graph", PyBool(FALSE)))

\* C1: generate_chart_for_query never raises to its caller: whatever the
\* completion capability does at each of its calls, the request terminates,
\* and what it returns is None or a string.
C1_NeverRaises ==
    /\ [](returned # Unset => returned.t = "ok" /\ returned.v.t \in {"none", "str"})
    /\ <>(Done /\ returned # Unset)

\* C1, its case: the intent step answered with JSON that is no mapping, the
\* lookup on it raised, and the request returned None
C1_Witness ==
    /\ Done
    /\ detection = PyList(<<PyBool(TRUE), PyStr("bar")>>)
    /\ returned = Ok(PyNone)

\* the option a returned page carries is a mapping with a series list
IsChartSpec(option) ==
    LET Loaded(spec) ==
            /\ ~IsRaise(spec)
            /\ spec.v.t = "dict"
            /\ Get(spec.v, "series", PyNone).t = "list"
    IN Loaded(json_loads(option))

\* C2: whenever the pipeline returns a value other than None, the value
\* carries a ChartSpec, a JSON mapping with a series list: it is never an
\* error message and never a bare JSON scalar or list.
C2_ReturnsChartSpec ==
    Done /\ returned # Ok(PyNone) =>
        /\ ~IsRaise(echarts_option)
        /\ returned = Ok(PyStr(HtmlBefore \o echarts_option.v \o HtmlAfter))
        /\ IsChartSpec(echarts_option.v)

Escapes ==
    \/ IsRaise(QueryPreview(sql_query))
    \/ detection # Unset /\ detection.t # "dict"
    \/ IsRaise(StructuredDump(parsed))

Parsed == pc = "parsed"

Empty == PyList(<< >>)

\* the text parse_sql_results reads from a string, and whether it is handed
\* to literal_eval
TextOf(raw) == StripLabel(raw.s)
LiteralTried(text) == Ch(Strip(text), 1) = "[" /\ Contains(text, "(")
LiteralFails(text) == LiteralTried(text) /\ IsRaise(literal_eval(text))

\* the row-tuples a string result yields: those literal_eval reads, and
\* when it reads none those of the tuple pattern
RowTuples(text) ==
    LET lit == IF LiteralTried(text) THEN literal_eval(text) ELSE Raise("ValueError")
        literal == IF ~IsRaise(lit) /\ lit.v.t = "list" THEN LiteralRows(lit.v) ELSE << >>
    IN IF literal # << >> THEN literal
       ELSE IF tuple_pattern(text) THEN RegexRows(text)
       ELSE << >>

\* a non-empty list of tuples or lists
IsRowList(raw) ==
    /\ raw.t = "list"
    /\ raw.l # << >>
    /\ \A i \in 1..Len(raw.l) : raw.l[i].t \in {"tuple", "list"}

\* a non-empty list of dicts
IsDictList(raw) ==
    /\ raw.t = "list"
    /\ raw.l # << >>
    /\ \A i \in 1..Len(raw.l) : raw.l[i].t = "dict"

\* C4: every element of a non-empty parse_sql_results output is a mapping,
\* and all elements have the same keys in the same order.
C4_UniformKeys ==
    Parsed /\ parsed # Empty =>
        /\ parsed.t = "list"
        /\ \A i \in 1..Len(parsed.l) : parsed.l[i].t = "dict"
        /\ \A i \in 1..Len(parsed.l) : DictKeys(parsed.l[i].d) = DictKeys(parsed.l[1].d)

\* C5: a non-empty sequence of mappings is returned unchanged, whatever the
\* query.
C5_DictsUnchanged == Parsed /\ IsDictList(data) => parsed = data

\* C5, its case: two rows of two keys each, given with a query that names
\* two other columns, are returned as they are
C5_Witness ==
    /\ Parsed
    /\ data = AsDicts(Table("named", 2, 2, 0))
    /\ sql_query = PyStr(SelectOf(<<"x", "y AS z">>))
    /\ parsed = data

\* C6: for a string that yields row-tuples the header names are the names
\* extracted from the query if their count is the first row's field count,
\* else the first row if it holds only strings and there is another row
\* (and it is then no data), else col_0, col_1, ...; and each output row maps
\* header i to field i of its tuple.
C6_HeaderPriority ==
    Parsed /\ data.t = "str" /\ RowTuples(TextOf(data)) # << >> =>
        LET rows == RowTuples(TextOf(data))
            names == extract_column_names_from_sql(sql_query)
            width == Len(rows[1])
            from_query == names # << >> /\ Len(names) = width
            from_row ==
                /\ ~from_query
                /\ Len(rows) > 1
                /\ \A i \in 1..width : rows[1][i].t = "str"
            headers ==
                IF from_query THEN names
                ELSE IF from_row THEN [i \in 1..width |-> rows[1][i].s]
                ELSE [i \in 1..width |-> "col_" \o IntToStr(i - 1)]
            tuples ==
                SelectSeq(IF from_row THEN Tail(rows) ELSE rows,
                          LAMBDA row : Len(row) = Len(headers))
        IN /\ Len(parsed.l) = Len(tuples)
           /\ \A r \in 1..Len(tuples) : \A i \in 1..Len(headers) :
                  /\ HasKey(parsed.l[r].d, headers[i])
                  /\ DictGet(parsed.l[r].d, headers[i]) = tuples[r][i]

\* C7: for a string and for a sequence of sequences, the rows whose field
\* count is the header count are kept, in input order, and the others are
\* left out.
C7_MismatchedRowsDropped ==
    Parsed =>
        /\ data.t = "str" /\ RowTuples(TextOf(data)) # << >> =>
               LET h == Headers(RowTuples(TextOf(data)), sql_query)
                   n == Len(h.headers)
                   kept == SelectSeq(h.data_rows, LAMBDA row : Len(row) = n)
               IN /\ Len(parsed.l) = Len(kept)
                  /\ \A r \in 1..Len(kept) :
                         DictGet(parsed.l[r].d, h.headers[n]) = kept[r][n]
        /\ IsRowList(data) =>
               LET n == Len(data.l[1].l)
                   kept == SelectSeq(data.l, LAMBDA row : Len(row.l) = n)
               IN /\ parsed.t = "list"
                  /\ Len(parsed.l) = Len(kept)
                  /\ \A r \in 1..Len(kept) :
                         /\ Len(parsed.l[r].d) = n
                         /\ \A i \in 1..n :
                                DictGet(parsed.l[r].d, "col_" \o IntToStr(i - 1))
                                    = kept[r].l[i]

\* the result is a list, and empty for an empty or absent input
AlwaysAList ==
    /\ parsed.t = "list"
    /\ Falsy(data) => parsed = Empty

\* a value that is neither a string nor a list of dicts, tuples or lists
Unsupported(raw) ==
    \/ raw.t \notin {"str", "list"}
    \/ raw.t = "list" /\ raw.l # << >> /\ raw.l[1].t \notin {"dict", "tuple", "list"}

\* a list of tuples or lists with an element zip cannot draw from
Unzippable(raw) ==
    /\ raw.t = "list"
    /\ raw.l # << >>
    /\ raw.l[1].t \in {"tuple", "list"}
    /\ \E i \in 1..Len(raw.l) : raw.l[i].t \notin {"tuple", "list", "str", "dict"}

\* the text is a JSON array
JsonList(text) ==
    LET Loaded(r) == ~IsRaise(r) /\ r.v.t = "list"
    IN Loaded(json_loads(text))

\* C8 as stated: parse_sql_results never raises, returns the empty sequence
\* for an empty or absent input, and returns the empty sequence whenever a
\* step fails: the literal parsing, the parsing of the string as a whole,
\* the handling of the value's type.
C8_FailureYieldsEmpty ==
    Parsed =>
        /\ AlwaysAList
        /\ Unsupported(data) \/ Unzippable(data) => parsed = Empty
        /\ data.t = "str" /\ LiteralFails(TextOf(data)) => parsed = Empty

\* C8, amended: parse_sql_results never raises, returns the empty sequence
\* for an empty or absent input and for a value of an unsupported type or
\* one whose rows cannot be zipped; a string whose literal parsing fails, or
\* is not tried, yields the empty sequence when the text neither matches the
\* tuple pattern nor is a JSON array.
C8_NeverRaises ==
    Parsed =>
        /\ AlwaysAList
        /\ Unsupported(data) \/ Unzippable(data) => parsed = Empty
        /\ /\ data.t = "str"
           /\ ~LiteralTried(TextOf(data)) \/ LiteralFails(TextOf(data))
           /\ ~tuple_pattern(TextOf(data))
           /\ ~JsonList(TextOf(data))
           => parsed = Empty

\* C8, its case: the second element of the list is no row, zip raises on it,
\* and the exception is caught
C8_Witness ==
    /\ Parsed
    /\ data = PyList(<<PyTuple(<<PyInt(1), PyInt(2)>>), PyInt(5)>>)
    /\ parsed = Empty

(***************************************************************************)
(* Properties of extract_column_names_from_sql                             *)
(***************************************************************************)
Extracted == pc = "extracted"

\* the projections other than the wildcard
NonWildcard == SelectSeq(projections, LAMBDA p : p # "*")

\* C9: the projection list is split at the commas outside parentheses, and
\* the result holds one name per projection other than the wildcard *, in
\* the order of the projections: the wildcard contributes no name.
C9_OneNamePerProjection ==
    Extracted /\ projections # << >> =>
        /\ Len(column_names) = Len(NonWildcard)
        /\ column_names = [i \in 1..Len(NonWildcard) |-> ColumnName(NonWildcard[i])[1]]

\* the alias a projection ends with: what follows its last AS keyword, less
\* the bracket and quote delimiters; "" when there is no AS keyword
AliasSuffix(p) ==
    LET at == {i \in 1..Len(p) : MatchCI(p, i, " AS ")}
    IN IF at = {} THEN ""
       ELSE RemoveChars(Strip(SubSeq(p, Max(at) + 4, Len(p))), {"[", "]", "\"", "'"})

\* C10: the name of a projection that ends with AS <alias>, in any letter
\* case, is the alias without its bracket and quote delimiters, whatever
\* expression precedes the suffix.  Stated for the queries without a
\* wildcard, where the i-th name is that of the i-th projection.
C10_AliasIsName ==
    Extracted /\ projections # << >> /\ NonWildcard = projections =>
        \A i \in 1..Len(projections) :
            AliasSuffix(projections[i]) # "" =>
                /\ Len(column_names) = Len(projections)
                /\ column_names[i] = AliasSuffix(projections[i])

\* the name the documentation gives a projection without alias: its text less
\* the bracket and quote delimiters, and of a qualified name the segment
\* after the last dot
TrailingSegment(p) ==
    LET Last(parts) == parts[Len(parts)]
    IN Last(Split(RemoveChars(Strip(p), {"[", "]", "\"", "'"}), "."))

\* C11: the name of a projection without alias holds no bracket or quote
\* delimiter and no parenthesis of a function call, and for a projection that
\* is no call it is the segment after the last dot of the projection (t.col
\* gives col), the spaces inside the identifier kept.  Stated for the
\* queries without a wildcard, where the i-th name is that of the i-th
\* projection.
C11_UnaliasedName ==
    Extracted /\ projections # << >> /\ NonWildcard = projections =>
        \A i \in 1..Len(projections) :
            AliasSuffix(projections[i]) = "" =>
                /\ Len(column_names) = Len(projections)
                /\ \A c \in {"[", "]", "\"", "'", "(", ")"} :
                       ~Contains(column_names[i], c)
                /\ ~Contains(projections[i], "(") =>
                       column_names[i] = TrailingSegment(projections[i])

(***************************************************************************)
(* Properties of select_chart_type                                         *)
(***************************************************************************)
Selected == pc = "selected"

\* the 16 chart types of the contract of select_chart_type
Enumeration ==
    {"bar", "line", "pie", "scatter", "heatmap", "radar", "gauge", "funnel",
     "sankey", "treemap", "sunburst", "boxplot", "candlestick", "graph",
     "parallel", "tree"}

\* the token of a response: its text without the whitespace around it, in
\* lower case, and without its quote characters
Token(text) == RemoveChars(Lower(Strip(text)), {"\"", "'"})

\* C12: whatever the completion capability does, select_chart_type returns
\* one of the 16 chart types.  It returns the token of the response when
\* the token is one of them, and bar for every other response and when the
\* capability raises.
C12_AlwaysInEnumeration ==
    Selected =>
        /\ chart_type.t = "str"
        /\ chart_type.s \in Enumeration
        /\ Cardinality(Enumeration) = 16
        /\ chart_type.s =
               IF ~IsRaise(llm) /\ llm.v.t = "str" /\ Token(llm.v.s) \in Enumeration
               THEN Token(llm.v.s) ELSE "bar"

\* C12, its case: a quoted name with a capital is accepted in lower case
C12_Witness ==
    /\ Selected
    /\ llm = Content("\"Heatmap\"")
    /\ chart_type = PyStr("heatmap")

(***************************************************************************)
(* Properties of detect_graph_request                                      *)
(***************************************************************************)
Detected == pc = "detected"

\* C13: when the completion capability raises or its response is no JSON
\* text, detect_graph_request raises nothing and returns the no-chart
\* default: a mapping with needs_graph false, no chart type, no variant,
\* and a reasoning that reports the error.
C13_FailureYieldsNoChart ==
    Detected /\ llm \in DetectFailures =>
        /\ detection.t = "dict"
        /\ Get(detection, "needs_graph", Unset) = PyBool(FALSE)
        /\ Get(detection, "chart_type", PyNone) = PyNone
        /\ Get(detection, "variant", PyNone) = PyNone
        /\ Get(detection, "reasoning", Unset).t = "str"
        /\ Contains(Lower(Get(detection, "reasoning", Unset).s), "error")

\* C13, its case: the response is a sentence
C13_Witness ==
    /\ Detected
    /\ llm = Content("The user wants a bar chart.")
    /\ detection = DetectionDefault

\* C14: when the completion capability answers with the JSON object, bare
\* or in a markdown code block, the intent returned has the needs_graph,
\* chart_type and variant of that object, and the capability was invoked
\* exactly once.
C14_IntentAsAnswered ==
    Detected /\ answer # Unset =>
        /\ detection.t = "dict"
        /\ \A key \in {"needs_graph", "chart_type", "variant"} :
               /\ HasKey(detection.d, key)
               /\ Get(detection, key, Unset) = Get(answer, key, Unset)
        /\ calls = <<"detect_graph_request">>

(***************************************************************************)
(* Properties of prepare_chart_data                                        *)
(***************************************************************************)
Prepared == pc = "prepared"

\* a one-point chart data
OnePoint(category, value, title) ==
    PyDict(<<KV("data", PyList(<<PyDict(<<KV("category", PyStr(category)),
                                          KV("value", PyInt(value))>>)>>)),
             KV("title", PyStr(title))>>)

\* C15: when the raw result parses to zero rows, prepare_chart_data returns
\* exactly {data: [{category: "No Data", value: 0}], title: "No Data
\* Available"}, whatever the chart type and the variant, and the completion
\* capability is not invoked.
C15_NoRowsYieldPlaceholder ==
    Prepared /\ parsed = PyList(<< >>) =>
        /\ returned = Ok(OnePoint("No Data", 0, "No Data Available"))
        /\ chart_data = OnePoint("No Data", 0, "No Data Available")
        /\ calls = << >>

\* C15, its case: a raw result without tuples, for a chart type outside the
\* enumeration, and a capability that would have answered
C15_Witness ==
    /\ Prepared
    /\ data = PyStr("no rows")
    /\ chart_type = PyStr("histogram")
    /\ variant = PyStr("stacked")
    /\ ~IsRaise(llm)
    /\ chart_data = OnePoint("No Data", 0, "No Data Available")

\* C16: when there are rows and the normalization fails, the completion
\* capability raising or answering with what is no JSON text once the code
\* block is taken out of it, prepare_chart_data raises nothing and returns
\* exactly {data: [{category: "Data", value: 1}], title: "Chart"}.
C16_FailureYieldsMinimalData ==
    /\ Prepared
    /\ parsed # PyList(<< >>)
    /\ calls = <<"prepare_chart_data">>
    /\ llm \in NormalizeFailures
    => /\ returned = Ok(OnePoint("Data", 1, "Chart"))
       /\ chart_data = OnePoint("Data", 1, "Chart")

\* C16, its case: there are two rows and the capability raises
C16_Witness ==
    /\ Prepared
    /\ data = PyStr("[('King', 5), ('Pierce', 3)]")
    /\ Len(parsed.l) = 2
    /\ llm = LlmRaises
    /\ returned = Ok(OnePoint("Data", 1, "Chart"))

(***************************************************************************)
(* Properties of generate_echarts_option                                   *)
(***************************************************************************)
Generated == pc = "generated"

\* C17: for every chart data prepare_chart_data can return and whatever the
\* completion capability does, generate_echarts_option raises nothing and
\* returns a spec: the JSON value of the response, when the response is
\* JSON text once the code block is taken out of it and the trailing commas
\* are repaired, and generate_fallback_option(chart_type, chart_data) when
\* the capability raises or the response is no JSON text after the repairs.
C17_OptionOrFallback ==
    Generated =>
        /\ ~IsRaise(echarts_option)
        /\ answer # Unset => json_loads(echarts_option.v) = Ok(answer)
        /\ llm \in SynthesizeFailures =>
               echarts_option = generate_fallback_option(chart_type, chart_data)

(***************************************************************************)
(* Properties of generate_fallback_option                                  *)
(***************************************************************************)
Drawn == pc = "drawn"

\* the option written in the text returned
DrawnOption == json_loads(echarts_option.v).v

\* the field of a mapping, Unset when it has none or is no mapping
Field(v, key) == IF v.t = "dict" THEN Get(v, key, Unset) ELSE Unset

\* the series of the option, and whether a series carries a stack identifier
SeriesOf(option) == Get(option, "series", Unset).l
Stacked(series) == HasKey(series.d, "stack")

\* the points of the chart data, and whether a flag of it is set
Points == Get(chart_data, "data", PyList(<< >>)).l
Flagged(name) == Get(chart_data, name, PyBool(FALSE)) = PyBool(TRUE)

\* every point has the label key and a value, and some point has a group
GroupedBy(key) ==
    /\ \A i \in 1..Len(Points) : HasKey(Points[i].d, key) /\ HasKey(Points[i].d, "value")
    /\ \E i \in 1..Len(Points) : HasKey(Points[i].d, "group")

\* the elements of a sequence at their first occurrence
RECURSIVE FirstOccurrences(_)
FirstOccurrences(seq) ==
    LET Added(before, last) ==
            IF \E i \in 1..Len(before) : before[i] = last THEN before
            ELSE Append(before, last)
    IN IF seq = << >> THEN << >>
       ELSE Added(FirstOccurrences(SubSeq(seq, 1, Len(seq) - 1)), seq[Len(seq)])

\* the fields of the points that have the key, in the order of the points
RECURSIVE FieldsOf(_, _)
FieldsOf(points, key) ==
    IF points = << >> THEN << >>
    ELSE (IF HasKey(Head(points).d, key) THEN <<Get(Head(points), key, Unset)>> ELSE << >>)
         \o FieldsOf(Tail(points), key)

\* the value of the first point with this label and this group, 0 when
\* there is none
ValueOf(key, label, group) ==
    LET hits == {i \in 1..Len(Points) :
                    /\ Get(Points[i], key, Unset) = label
                    /\ Get(Points[i], "group", Unset) = group}
    IN IF hits = {} THEN PyInt(0) ELSE Get(Points[Min(hits)], "value", Unset)

\* the option has the unique labels on its axis, the unique groups in its
\* legend, and one series per group with one value per label
CrossProduct(option, key) ==
    LET Crossed(labels, groups, series) ==
            /\ Field(Field(option, "xAxis"), "data") = PyList(labels)
            /\ Field(Field(option, "legend"), "data") = PyList(groups)
            /\ Len(series) = Len(groups)
            /\ \A g \in 1..Len(groups) :
                   /\ Field(series[g], "name") = groups[g]
                   /\ Field(series[g], "data") =
                          PyList([c \in 1..Len(labels) |-> ValueOf(key, labels[c], groups[g])])
    IN Crossed(FirstOccurrences(FieldsOf(Points, key)),
               FirstOccurrences(FieldsOf(Points, "group")),
               Get(option, "series", Unset).l)

\* C18: for a bar chart whose points carry group fields and whose stack or
\* group flag is set, the fallback option has the unique categories and the
\* unique groups in the order of their first occurrence, not sorted, one
\* series per unique group, named after it, the legend listing the groups
\* in that order, and in every series one value per category: that of the
\* point with this category and this group, 0 when there is none.
C18_GroupedBarCrossProduct ==
    /\ Drawn
    /\ chart_type = PyStr("bar")
    /\ GroupedBy("category")
    /\ Flagged("stack") \/ Flagged("group")
    => CrossProduct(DrawnOption, "category")

\* C18, its case: Pierce comes before King and PHEV before BEV, and no
\* point is in King and PHEV
C18_Witness ==
    /\ Drawn
    /\ chart_type = PyStr("bar")
    /\ chart_data = PyDict(<<KV("data", PyList(<<GroupedPoint(1, "Pierce", "PHEV"),
                                                 GroupedPoint(2, "King", "BEV"),
                                                 GroupedPoint(3, "Pierce", "BEV")>>)),
                             Flag("stack")>>)
    /\ Field(Field(DrawnOption, "xAxis"), "data")
           = PyList(<<PyStr("Pierce"), PyStr("King")>>)
    /\ SeriesOf(DrawnOption)[1]
           = PyDict(<<KV("name", PyStr("PHEV")), KV("type", PyStr("bar")),
                      KV("data", PyList(<<PyInt(10), PyInt(0)>>)),
                      KV("stack", PyStr("total"))>>)
    /\ Field(SeriesOf(DrawnOption)[2], "data")
           = PyList(<<PyInt(30), PyInt(20)>>)

\* C19: in the bar fallback the flags alone decide the layout of the series
\* for points that carry group fields.  With the stack flag set, with or
\* without the group flag, every series carries the stack identifier
\* "total"; with the group flag set and the stack flag not, there is one
\* series per group and none carries a stack identifier; with neither flag
\* set there is a single series of all the values, without stack
\* identifier.
C19_FlagsDecideLayout ==
    Drawn /\ chart_type = PyStr("bar") /\ GroupedBy("category") =>
        LET Layout(series, groups) ==
                IF Flagged("stack")
                THEN /\ Len(series) = Len(groups)
                     /\ \A g \in 1..Len(series) :
                            Field(series[g], "stack") = PyStr("total")
                ELSE IF Flagged("group")
                THEN /\ Len(series) = Len(groups)
                     /\ \A g \in 1..Len(series) : ~Stacked(series[g])
                ELSE /\ Len(series) = 1
                     /\ ~Stacked(series[1])
                     /\ Field(series[1], "data") = PyList(FieldsOf(Points, "value"))
        IN Layout(SeriesOf(DrawnOption), FirstOccurrences(FieldsOf(Points, "group")))

\* C19, its case: the group flag is set and the stack flag is false; the two
\* groups give two series without stack identifier
C19_Witness ==
    /\ Drawn
    /\ chart_type = PyStr("bar")
    /\ chart_data = PyDict(<<KV("data", PyList(<<GroupedPoint(1, "King", "BEV"),
                                                 GroupedPoint(2, "King", "PHEV")>>)),
                             KV("stack", PyBool(FALSE)), Flag("group"),
                             KV("title", PyStr("EVs"))>>)
    /\ Len(SeriesOf(DrawnOption)) = 2
    /\ \A g \in 1..2 : ~Stacked(SeriesOf(DrawnOption)[g])

\* the series of a stacked line chart: one per group over the unique time
\* values, each with the stack identifier, and with an area fill when
\* showArea is set
StackedLines ==
    LET Lines(option) ==
            /\ CrossProduct(option, "time")
            /\ \A g \in 1..Len(SeriesOf(option)) :
                   /\ Field(SeriesOf(option)[g], "type") = PyStr("line")
                   /\ Field(SeriesOf(option)[g], "stack") = PyStr("total")
                   /\ Flagged("showArea") => HasKey(SeriesOf(option)[g].d, "areaStyle")
    IN Lines(DrawnOption)

\* C20 as claimed: the stack flag or the group flag of a line chart whose
\* points carry group fields gives one series per unique group over the
\* unique time values, in the order of their first occurrence, the value
\* that of the point with this time and this group, 0 when there is none;
\* every series carries the stack identifier, and an area fill when
\* showArea is set.
C20_StackOrGroupFlag ==
    /\ Drawn
    /\ chart_type = PyStr("line")
    /\ GroupedBy("time")
    /\ Flagged("stack") \/ Flagged("group")
    => StackedLines

\* C20: the stack flag of a line chart whose points carry group fields
\* gives one series per unique group over the unique time values, in the
\* order of their first occurrence, the value that of the point with this
\* time and this group, 0 when there is none; every series carries the
\* stack identifier, and an area fill when showArea is set.
C20_StackFlag ==
    /\ Drawn
    /\ chart_type = PyStr("line")
    /\ GroupedBy("time")
    /\ Flagged("stack")
    => StackedLines

\* C20, its case: stack and showArea are set, 2020 comes before 2021 and
\* no point is in 2021 and PHEV
C20_Witness ==
    /\ Drawn
    /\ chart_type = PyStr("line")
    /\ chart_data = PyDict(<<KV("data", PyList(<<GroupedPoint(1, "Pierce", "PHEV"),
                                                 GroupedPoint(2, "King", "BEV"),
                                                 GroupedPoint(3, "Pierce", "BEV")>>)),
                             Flag("stack"), Flag("showArea"), Flag("smooth"),
                             KV("title", PyStr("EVs"))>>)
    /\ Field(Field(DrawnOption, "xAxis"), "data")
           = PyList(<<PyStr("2020"), PyStr("2021")>>)
    /\ SeriesOf(DrawnOption)[1]
           = PyDict(<<KV("name", PyStr("PHEV")), KV("type", PyStr("line")),
                      KV("stack", PyStr("total")),
                      KV("data", PyList(<<PyInt(10), PyInt(0)>>)),
                      KV("areaStyle", PyDict(<< >>)), KV("smooth", PyBool(TRUE))>>)

(***************************************************************************)
(* Properties of generate_fallback_option on every chart type              *)
(***************************************************************************)
\* a chart data of the data model: a sequence of point mappings, every
\* value a number and every label a string, every flag a boolean, the
\* inner radius a fraction, the title a string
WellFormed ==
    /\ Get(chart_data, "data", PyList(<< >>)).t = "list"
    /\ \A i \in 1..Len(Points) :
           /\ Points[i].t = "dict"
           /\ Get(Points[i], "value", PyInt(0)).t \in {"int", "float"}
           /\ \A key \in {"category", "time", "group", "x", "y"} :
                  Get(Points[i], key, PyStr("")).t = "str"
    /\ \A name \in {"stack", "group", "smooth", "showArea"} :
           Get(chart_data, name, PyBool(FALSE)).t = "bool"
    /\ Get(chart_data, "innerRadius", PyInt(0)).t \in {"int", "float"}
    /\ Mantissa(Get(chart_data, "innerRadius", PyInt(0))) >= 0
    /\ Get(chart_data, "title", PyStr("Chart")).t = "str"

\* the inner radius is set and is not zero
InnerRadiusSet == Mantissa(Get(chart_data, "innerRadius", PyInt(0))) # 0

\* C21: the option of a pie chart has exactly one series; its data are one
\* name/value pair per point, in the order of the points, the name the
\* category and the value the value of the point; its radius is a pair when
\* innerRadius is set and not zero, and a single percentage when it is
\* unset or zero.
C21_PieSeries ==
    LET Pie(option) ==
            /\ Len(SeriesOf(option)) = 1
            /\ Len(Field(SeriesOf(option)[1], "data").l) = Len(Points)
            /\ \A i \in 1..Len(Points) :
                   /\ DictKeys(Field(SeriesOf(option)[1], "data").l[i].d) = <<"name", "value">>
                   /\ HasKey(Points[i].d, "category") =>
                          Field(Field(SeriesOf(option)[1], "data").l[i], "name")
                              = Field(Points[i], "category")
                   /\ HasKey(Points[i].d, "value") =>
                          Field(Field(SeriesOf(option)[1], "data").l[i], "value")
                              = Field(Points[i], "value")
            /\ InnerRadiusSet =>
                   /\ Field(SeriesOf(option)[1], "radius").t = "list"
                   /\ Len(Field(SeriesOf(option)[1], "radius").l) = 2
            /\ ~InnerRadiusSet => Field(SeriesOf(option)[1], "radius").t = "str"
    IN Drawn /\ chart_type = PyStr("pie") /\ WellFormed
       => ~IsRaise(echarts_option) /\ Pie(DrawnOption)

\* C21, its case: a donut of three points, the first category coming back
\* at the third
C21_Witness ==
    /\ Drawn
    /\ chart_type = PyStr("pie")
    /\ chart_data = PyDict(<<KV("data", PyList(<<PlainPoint(1), PlainPoint(2), PlainPoint(3)>>)),
                             KV("innerRadius", PyFloat(6, 1))>>)
    /\ Field(SeriesOf(DrawnOption)[1], "radius") = PyList(<<PyStr("60%"), PyStr("40%")>>)
    /\ Field(SeriesOf(DrawnOption)[1], "data")
           = PyList(<<PyDict(<<KV("name", PyStr("King")), KV("value", PyInt(20))>>),
                      PyDict(<<KV("name", PyStr("Pierce")), KV("value", PyInt(40))>>),
                      PyDict(<<KV("name", PyStr("King")), KV("value", PyInt(10))>>)>>)

\* no point of the chart data carries a group
Ungrouped == \A i \in 1..Len(Points) : ~HasKey(Points[i].d, "group")

\* C22: the option of a line chart without groups has exactly one series;
\* its data are the values of the points, in the order of the points; it
\* is marked smooth if and only if the smooth flag is set, and carries an
\* area fill if and only if showArea is set.
C22_UngroupedLine ==
    LET Line(option) ==
            /\ Len(SeriesOf(option)) = 1
            /\ Field(SeriesOf(option)[1], "type") = PyStr("line")
            /\ Len(Field(SeriesOf(option)[1], "data").l) = Len(Points)
            /\ \A i \in 1..Len(Points) :
                   HasKey(Points[i].d, "value") =>
                       Field(SeriesOf(option)[1], "data").l[i] = Field(Points[i], "value")
            /\ Field(SeriesOf(option)[1], "smooth") = PyBool(TRUE) <=> Flagged("smooth")
            /\ HasKey(SeriesOf(option)[1].d, "areaStyle") <=> Flagged("showArea")
    IN Drawn /\ chart_type = PyStr("line") /\ WellFormed /\ Ungrouped
       => ~IsRaise(echarts_option) /\ Line(DrawnOption)

\* C22, its case: three points, smooth set and showArea unset
C22_Witness ==
    /\ Drawn
    /\ chart_type = PyStr("line")
    /\ chart_data = PyDict(<<KV("data", PyList(<<PlainPoint(1), PlainPoint(2), PlainPoint(3)>>)),
                             Flag("smooth")>>)
    /\ SeriesOf(DrawnOption)
           = <<PyDict(<<KV("type", PyStr("line")),
                        KV("data", PyList(<<PyInt(20), PyInt(40), PyInt(10)>>)),
                        KV("smooth", PyBool(TRUE))>>)>>

\* C23: for every chart type of the enumeration and every chart data of
\* the data model, an empty data sequence, absent flags and points without
\* group, label or value included, generate_fallback_option invokes
\* nothing, raises nothing and returns the text of a JSON object whose
\* series is a list that is not empty.
C23_PureAndTotal ==
    LET Valid(option) ==
            /\ option.t = "dict"
            /\ Field(option, "series").t = "list"
            /\ Len(SeriesOf(option)) >= 1
            /\ \A g \in 1..Len(SeriesOf(option)) : SeriesOf(option)[g].t = "dict"
    IN Drawn /\ chart_type.s \in valid_types /\ WellFormed
       => /\ calls = << >>
          /\ ~IsRaise(echarts_option)
          /\ ~IsRaise(json_loads(echarts_option.v))
          /\ Valid(DrawnOption)

\* C23, its case: a heatmap of no points, with no flag
C23_Witness ==
    /\ Drawn
    /\ chart_type = PyStr("heatmap")
    /\ chart_data = PyDict(<<KV("data", PyList(<< >>))>>)
    /\ Field(Field(DrawnOption, "visualMap"), "max") = PyInt(100)
    /\ Field(SeriesOf(DrawnOption)[1], "data") = PyList(<< >>)

(***************************************************************************)
(* Properties of the steps of generate_chart_for_query                     *)
(***************************************************************************)
\* the steps that invoke the completion capability, in the order of the code
Order ==
    <<"detect_graph_request", "select_chart_type", "prepare_chart_data",
      "generate_echarts_option">>
Position(name) == CHOOSE k \in DOMAIN Order : Order[k] = name
Invoked(name) == \E i \in DOMAIN calls : calls[i] = name

\* the intent asks for a chart and gives no chart type
Untyped(d) == AsksForChart(d) /\ Falsy(Get(d, "chart_type", PyNone))

\* C24: within one request the completion capability is invoked in the
\* order intent detection, chart-type selection, normalization, synthesis,
\* each at most once; once the intent is known the selection is invoked if
\* and only if the intent asks for a chart and gives no chart type, and
\* nothing is invoked after an intent that asks for no chart.
C24_InvocationOrder ==
    /\ \A i, j \in DOMAIN calls : i < j => Position(calls[i]) < Position(calls[j])
    /\ pc \in {"prepare", "html", "done"} =>
           (Invoked("select_chart_type") <=> Untyped(detection))
    /\ detection # Unset /\ ~AsksForChart(detection) =>
           calls = <<"detect_graph_request">>

\* C24, its case: a request that invoked all four steps
C24_Witness ==
    /\ Done
    /\ Untyped(detection)
    /\ calls = Order

\* C25: the chart data handed to generate_echarts_option always has a data
\* sequence of at least one point, whether the rows were empty, the
\* normalization failed or the completion capability wrote the chart data.
C25_NeverEmptyData ==
    pc = "html" =>
        /\ chart_data.t = "dict"
        /\ Field(chart_data, "data").t = "list"
        /\ Len(Field(chart_data, "data").l) >= 1

(***************************************************************************)
(* Properties of the chart data prepare_chart_data returns                 *)
(***************************************************************************)
\* the invariant of the data model on the chart data cdata of a chart of
\* type ctype: with stack or group set every point carries a group, and
\* the points of a line chart carry a time and no category
DataModelInvariant(ctype, cdata) ==
    LET Holds(points) ==
            /\ ~Falsy(Get(cdata, "stack", PyBool(FALSE)))
                   \/ ~Falsy(Get(cdata, "group", PyBool(FALSE)))
               => \A i \in 1..Len(points) : HasKey(points[i].d, "group")
            /\ ctype = PyStr("line")
               => \A i \in 1..Len(points) :
                      HasKey(points[i].d, "time") /\ ~HasKey(points[i].d, "category")
    IN /\ cdata.t = "dict"
       /\ Get(cdata, "data", PyList(<< >>)).t = "list"
       /\ \A i \in 1..Len(Get(cdata, "data", PyList(<< >>)).l) :
              Get(cdata, "data", PyList(<< >>)).l[i].t = "dict"
       /\ Holds(Get(cdata, "data", PyList(<< >>)).l)

\* C26: every chart data prepare_chart_data returns satisfies the invariant
\* of the data model: if its stack or group flag is set every point carries
\* a group field, and if the chart type is line every point carries a time
\* field instead of a category field.
C26_DataModelInvariant ==
    Prepared /\ ~IsRaise(returned) => DataModelInvariant(chart_type, returned.v)

\* C27: the chart type the pipeline hands to prepare_chart_data and to
\* generate_echarts_option is always one of the 16 chart types, whether the
\* intent gave it or select_chart_type chose it.
C27_ChartTypeInEnumeration ==
    pc \in {"prepare", "html"} => chart_type.t = "str" /\ chart_type.s \in valid_types

(***************************************************************************)
(* Properties of the projection list extract_column_names_from_sql reads   *)
(***************************************************************************)
\* the text between SELECT and the FROM of the statement the query was
\* written as
ProjectionText ==
    IF sql_query = PyStr(SelectOf(projections)) THEN Join(projections, ", ")
    ELSE Join(projections, ",")

\* C28: the names are those of the text between the first SELECT and the
\* first FROM outside parentheses: a FROM inside a parenthesised projection
\* and a name that begins with from do not end the projection list; a
\* query without SELECT ... FROM, an empty query and a query that is no
\* string give the empty list.
C28_ProjectionList ==
    Extracted =>
        /\ projections # << >> =>
               column_names = ColumnNames(SplitColumns(ProjectionText, 1))
        /\ projections = << >> => column_names = << >>

(***************************************************************************)
(* Properties of parse_sql_results on rendered lists of tuples             *)
(***************************************************************************)
\* the rows of the result are the given tuples, all of them or, when the
\* first holds only strings and is not the only one, all but the first, in
\* their order, every field at its position
RowsKept(tuples) ==
    LET Kept(out, skipped) ==
            /\ skipped \in {0, 1}
            /\ skipped = 1 =>
                   Len(tuples) > 1 /\ \A i \in 1..Len(tuples[1]) : tuples[1][i].t = "str"
            /\ \A r \in 1..Len(out) :
                   /\ out[r].t = "dict"
                   /\ [i \in 1..Len(out[r].d) |-> out[r].d[i].v] = tuples[r + skipped]
    IN parsed.t = "list" /\ Kept(parsed.l, Len(tuples) - Len(parsed.l))

\* the values of a result set all of whose rows have the same width
ValuesOf(table) == [r \in 1..Len(table) |-> [c \in 1..Len(table[r]) |-> table[r][c].val]]
EqualWidth(table) == \A r \in 1..Len(table) : Len(table[r]) = Len(table[1])

\* C29: a string that renders a list of k tuples of equal width, with or
\* without a leading "Result:" label, gives k rows, or k - 1 when the first
\* tuple is taken as the header row, in the order of the tuples and with
\* every field at its position, by literal parsing or by the tuple
\* pattern, whose fields become integers, floats or strings; "Result:"
\* inside a field leaves the rows as they are.
C29_NothingLost ==
    Parsed =>
        /\ \A table \in Tables :
               /\ EqualWidth(table)
               /\ data \in {PyStr(ReprList(table)), PyStr("Result: " \o ReprList(table))}
               => RowsKept(ValuesOf(table))
        /\ data = PyStr("[(1, 'Result: x')]") =>
               RowsKept(<<<<PyInt(1), PyStr("Result: x")>>>>)

(***************************************************************************)
(* Properties of parse_sql_results on its own result                       *)
(***************************************************************************)
\* C30: parse_sql_results is idempotent on every input: called on its own
\* result with the same query it returns that result, a JSON array string
\* and a sequence of sequences included.
C30_Idempotent == pc = "reparsed" => returned = Ok(parsed)

====
